---- MODULE Spec2Model ----
(***************************************************************************)
(* Boot-time startup checks of the Cyberwave Edge Core                     *)
(* (src/cyberwave_edge_core/startup.py, src/cyberwave_edge_core/main.py).  *)
(*                                                                         *)
(* The orchestrator run_startup_checks is a single control-flow thread;    *)
(* its position is pc.  The files of the config directory are modelled by  *)
(* the kind of content they hold.  The only concurrent actor of this part  *)
(* of the model is the linking process that writes environment.json.       *)
(***************************************************************************)
EXTENDS Integers, Sequences, FiniteSets, TLC

VARIABLES
    pc,               \* position of run_startup_checks
    result,           \* outcome of run_startup_checks
    steps,            \* history: the steps attempted so far, in order
    credFile,         \* content of credentials.json
    fpFile,           \* content of fingerprint.json
    envFile,          \* content of environment.json
    token,            \* local `token` of run_startup_checks
    token_valid,      \* history: what validate_token returned
    mqtt_ok,          \* history: what check_mqtt_connection returned
    edge_ok,          \* history: what register_edge returned
    edgesCreated,     \* backend: fingerprints passed to client.edges.create
    attempt,          \* loop variable of load_environment_uuid
    envFirstSeen,     \* history: whether the first attempt found environment.json
    envNoneAfter,     \* history: attempts after which load_environment_uuid
                      \*          returned None (0: it has not)
    environment_uuid, \* local `environment_uuid` of run_startup_checks
    fingerprint,      \* local `fingerprint` of run_startup_checks (step 6)
    twinsListed,      \* history: fetch_and_run_twin_drivers asked for the twins
    twins,            \* the listing returned by client.twins.list
    idx,              \* position of the twin loop (1-based, next to process)
    results,          \* local `results` of fetch_and_run_twin_drivers
    assetsFetched,    \* history: positions whose asset was requested
    snapshots,        \* history: twin uuids whose <uuid>.json was written
    dockerOps,        \* history: docker subprocesses issued, in order
    alerts,           \* history: twin uuids an alert was sent for
    fn_args,          \* arguments of the function applied on its own
    fn_ret,           \* its outcome
    _CONTAINER_LOG_THREADS, \* startup.py 37: container name -> Thread
    threads,          \* the Thread objects created by _stream_container_logs
    containers,       \* docker: container name -> the container of that name
    callers,          \* the threads that run _run_docker_image's tail
    twinFile,         \* content of <twin_uuid>.json
    writer,           \* position and locals of write_or_update_twin_json_file
    observed,         \* history: the kinds of content the readers of
                      \*          <twin_uuid>.json got
    driverKeys,       \* history: the keys the driver added to <twin_uuid>.json
    journal           \* history: the records handed to the logger

\* The state of a boot, and the state of a function applied on its own.
bootVars ==
    <<pc, result, steps, credFile, fpFile, envFile, token, token_valid,
      mqtt_ok, edge_ok, edgesCreated, attempt, envFirstSeen, envNoneAfter,
      environment_uuid, fingerprint, twinsListed, twins, idx, results,
      assetsFetched, snapshots, dockerOps, alerts>>
pureVars == <<fn_args, fn_ret>>
logVars == <<_CONTAINER_LOG_THREADS, threads, containers, callers>>
jsonVars == <<twinFile, writer, observed, driverKeys>>
restVars == <<logVars, jsonVars, journal>>
vars == <<bootVars, pureVars, restVars>>

-----------------------------------------------------------------------------
(* Values *)

None == "<None>"

\* Python exceptions that matter to the control flow.
KeyError == "KeyError"
ValueError == "ValueError"
TypeError == "TypeError"
AttributeError == "AttributeError"
TimeoutExpired == "TimeoutExpired"
RemoteError == "RemoteError"

Return(v) == [kind |-> "return", val |-> v]
Raise(e) == [kind |-> "raise", val |-> e]

\* The fingerprint generate_fingerprint derives for this host, and others.
HostFingerprint == "linux-fp1"
OtherFingerprint == "linux-fp2"
StaleFingerprint == "linux-fp0"
\* The host's fingerprint in another letter case.
UpperFingerprint == "LINUX-FP1"

\* The UUID environment.json holds when it holds a valid one.
EnvUuid == "env-uuid"

\* The token credentials.json holds when it holds one.
GoodToken == "tok-0123456789abcdef"

-----------------------------------------------------------------------------
(* Strings: str.strip() *)

\* A string of white space only, and a string with white space around it.
Blank == "  "
Pad(s) == " " \o s \o " "

\* The strings of the model that also occur with white space around them.
Unpadded ==
    {"linux-fp0", "staging", "production", "https://env", "https://envs",
     "https://flat"}

Padded == {Pad(t) : t \in Unpadded}
Unpad == [s \in Padded |-> CHOOSE t \in Unpadded : s = Pad(t)]

\* s.strip()
Strip(s) ==
    IF s = Blank THEN ""
    ELSE IF s \in Padded THEN Unpad[s]
    ELSE s

-----------------------------------------------------------------------------
(* Bounds *)

\* Longest twin listing the backend returns.
MaxTwins == 2

-----------------------------------------------------------------------------
(* credentials.json: load_token *)

CredFileKinds ==
    {"absent", "unreadable", "invalid_json", "non_object", "no_token",
     "non_string_token", "token"}

\* load_token(), startup.py 58-83.  A JSON value that is not an object has no
\* .get, and a truthy token that is not a string has no len(): neither
\* exception is among the caught ones.
load_token(file) ==
    CASE file = "absent" -> Return(None)
      [] file = "unreadable" -> Return(None)
      [] file = "invalid_json" -> Return(None)
      [] file = "non_object" -> Raise(AttributeError)
      [] file = "no_token" -> Return(None)
      [] file = "non_string_token" -> Raise(TypeError)
      [] file = "token" -> Return(GoodToken)

-----------------------------------------------------------------------------
(* fingerprint.json: load_saved_fingerprint, save_fingerprint,             *)
(* get_or_create_fingerprint                                               *)

FpFileAbsent == [kind |-> "absent", fingerprint |-> None]
\* {"fingerprint": "<fp>"}
FpFileSaved(fp) == [kind |-> "saved", fingerprint |-> fp]

\* The contents the boots of the model find.
FpFiles ==
    {[kind |-> k, fingerprint |-> None] :
        k \in {"absent", "unreadable", "invalid_json", "non_object", "no_field"}}
    \cup {FpFileSaved(fp) : fp \in {HostFingerprint, StaleFingerprint}}

\* Every content: also a "fingerprint" field that is not a string, one that
\* is empty or blank, and one with white space around the fingerprint.
AllFpFiles ==
    FpFiles
    \cup {[kind |-> "non_string_field", fingerprint |-> None]}
    \cup {FpFileSaved(fp) : fp \in {"", Blank, Pad(StaleFingerprint)}}

\* load_saved_fingerprint(), startup.py 232-245.  A JSON value that is not
\* an object has no .get: AttributeError is not among the caught exceptions.
load_saved_fingerprint(file) ==
    CASE file.kind = "absent" -> Return(None)
      [] file.kind = "unreadable" -> Return(None)
      [] file.kind = "invalid_json" -> Return(None)
      [] file.kind = "non_object" -> Raise(AttributeError)
      [] file.kind = "no_field" -> Return(None)
      [] file.kind = "non_string_field" -> Return(None)
      [] file.kind = "saved" ->
            IF Strip(file.fingerprint) # ""
            THEN Return(Strip(file.fingerprint))
            ELSE Return(None)

\* get_or_create_fingerprint without the test of `saved`: the fingerprint is
\* derived and persisted on every call.
get_or_create_fingerprint_Regenerates(file, generated, saveOk) ==
    LET saved == load_saved_fingerprint(file) IN
    IF saved.kind = "raise" THEN [out |-> saved, file |-> file, calls |-> <<>>]
    ELSE IF ~saveOk
    THEN [out |-> Return(None), file |-> file,
          calls |-> <<"generate_fingerprint", "save_fingerprint">>]
    ELSE [out |-> Return(generated), file |-> FpFileSaved(generated),
          calls |-> <<"generate_fingerprint", "save_fingerprint">>]

\* get_or_create_fingerprint(), startup.py 261-269, with save_fingerprint,
\* startup.py 248-258.  generated: what generate_fingerprint derives from the
\* host at the time of the call; saveOk: whether the write of
\* fingerprint.json works.  Gives the outcome, the file afterwards and
\* (history) the calls made.
get_or_create_fingerprint(file, generated, saveOk) ==
    LET saved == load_saved_fingerprint(file) IN
    IF saved.kind = "raise" THEN [out |-> saved, file |-> file, calls |-> <<>>]
    ELSE IF saved.val # None
    THEN [out |-> Return(saved.val), file |-> file, calls |-> <<>>]
    ELSE IF ~saveOk
    THEN [out |-> Return(None), file |-> file,
          calls |-> <<"generate_fingerprint", "save_fingerprint">>]
    ELSE [out |-> Return(generated), file |-> FpFileSaved(generated),
          calls |-> <<"generate_fingerprint", "save_fingerprint">>]

-----------------------------------------------------------------------------
(* register_edge *)

\* What client.edges.create answers.
EdgeResponses == {"edge", "falsy", "raises"}

\* register_edge(token), startup.py 666-686.  Gives the outcome, the file
\* afterwards and the fingerprints sent to the backend.
register_edge(file, saveOk, response) ==
    LET g == get_or_create_fingerprint(file, HostFingerprint, saveOk) IN
    IF g.out.kind = "raise" THEN [out |-> g.out, file |-> g.file, sent |-> {}]
    ELSE IF g.out.val = None THEN [out |-> Return(FALSE), file |-> g.file, sent |-> {}]
    ELSE [out |-> Return(response = "edge"), file |-> g.file,
          sent |-> {g.out.val}]

-----------------------------------------------------------------------------
(* environment.json: load_environment_uuid *)

EnvFileKinds ==
    {"absent", "unreadable", "invalid_json", "non_object", "no_uuid",
     "bad_uuid", "valid"}

\* retries=5 of the call in run_startup_checks, startup.py 799.
EnvRetries == 5

\* max_attempts of load_environment_uuid, startup.py 198.
max_attempts(retries) == IF retries + 1 > 1 THEN retries + 1 ELSE 1

\* One pass of the loop body of load_environment_uuid, startup.py 200-225,
\* on the content the attempt finds: "continue" (sleep and retry) or the
\* value returned.
EnvAttemptOutcome(file, att, maxAtt) ==
    CASE file = "valid" -> Return(EnvUuid)
      [] file = "non_object" -> Return(None)
      [] file = "bad_uuid" -> Return(None)
      [] file \in {"no_uuid", "invalid_json", "unreadable", "absent"} ->
            IF att < maxAtt THEN [kind |-> "continue", val |-> None]
            ELSE Return(None)

-----------------------------------------------------------------------------
(* Python values held by the JSON-like metadata of twins and assets *)

PyNone == [kind |-> "None", val |-> <<>>]
Str(s) == [kind |-> "str", val |-> s]
PyInt(n) == [kind |-> "int", val |-> n]
List(q) == [kind |-> "list", val |-> q]
Dict(f) == [kind |-> "dict", val |-> f]
EmptyDict == Dict(<<>>)

\* bool(v)
Truthy(v) ==
    CASE v.kind = "None" -> FALSE
      [] v.kind = "str" -> v.val # ""
      [] v.kind = "int" -> v.val # 0
      [] v.kind = "list" -> v.val # <<>>
      [] v.kind = "dict" -> DOMAIN v.val # {}

\* d.get(k, default) and d.get(k)
GetOr(d, k, default) == IF k \in DOMAIN d.val THEN d.val[k] ELSE default
Get(d, k) == GetOr(d, k, PyNone)

-----------------------------------------------------------------------------
(* Driver descriptors *)

\* The entries of a drivers table, built from what each key may hold:
\* docker_image absent, null, empty, a number or a name; params absent,
\* empty or given; version absent or given.
Absent == [kind |-> "absent", val |-> <<>>]
ImageValues == {Absent, PyNone, Str(""), PyInt(5), Str("img"), Str("img:1.0")}
ParamsValues == {Absent, List(<<>>), List(<<"--x">>)}
VersionValues == {Absent, Str("0.1.0")}

\* The dict with the keys of f whose value is not Absent.
DictOf(f) ==
    Dict([k \in {x \in DOMAIN f : f[x] # Absent} |-> f[k]])

Entry(image, params, version) ==
    DictOf([docker_image |-> image, params |-> params, version |-> version])

DriverEntries ==
    {Entry(i, p, v) : i \in ImageValues, p \in ParamsValues, v \in VersionValues}
    \cup {PyNone, Str("img")}

EntryFull == Entry(Str("img"), List(<<"--x">>), Str("0.1.0"))
EntryNoParams == Entry(Str("img"), Absent, Absent)
EntryMac == Entry(Str("img-mac"), List(<<"--y">>), Absent)
EntryNoImage == Entry(Absent, Absent, Str("0.1.0"))

\* Every drivers table: with or without `default`, with or without `mac`.
AllDriverTables ==
    {DictOf([default |-> d, mac |-> m]) :
        d \in DriverEntries \cup {Absent}, m \in {Absent, EntryMac}}

TableNoDefault == DictOf([default |-> Absent, mac |-> EntryMac])
TableFull == DictOf([default |-> EntryFull, mac |-> EntryMac])

\* The values of metadata["drivers"] of an asset in the boot model: no
\* table, one without `default`, one whose default has no docker_image, and
\* a good one.
DriverTables ==
    {PyNone, TableNoDefault, DictOf([default |-> EntryNoImage]),
     DictOf([default |-> EntryNoParams])}

\* The values of metadata["drivers"] of a twin in the boot model.
TwinDriverTables == {TableNoDefault, TableFull}

Selection(image, params) == [image |-> image, params |-> params]

\* _get_best_driver_image_and_params choosing the entry of this platform
\* (`mac`) when the table has one.
_get_best_driver_image_and_params_PrefersMac(drivers) ==
    LET key == IF "mac" \in DOMAIN drivers.val THEN "mac" ELSE "default" IN
    IF key \notin DOMAIN drivers.val THEN Raise(KeyError)
    ELSE LET d == drivers.val[key] IN
         IF ~Truthy(d) THEN Raise(ValueError)
         ELSE IF d.kind # "dict" THEN Raise(TypeError)
         ELSE IF "docker_image" \notin DOMAIN d.val THEN Raise(KeyError)
         ELSE LET image == d.val["docker_image"] IN
              IF ~Truthy(image) \/ image.kind # "str" THEN Raise(ValueError)
              ELSE Return(Selection(image.val, GetOr(d, "params", List(<<>>)).val))

\* _get_best_driver_image_and_params(drivers), startup.py 635-663.
\* drivers["default"] and ["docker_image"] are subscripts: KeyError on a
\* missing key, TypeError when `default` holds a string.
_get_best_driver_image_and_params(drivers) ==
    IF "default" \notin DOMAIN drivers.val THEN Raise(KeyError)
    ELSE LET d == drivers.val["default"] IN
         IF ~Truthy(d) THEN Raise(ValueError)
         ELSE IF d.kind # "dict" THEN Raise(TypeError)
         ELSE IF "docker_image" \notin DOMAIN d.val THEN Raise(KeyError)
         ELSE LET image == d.val["docker_image"] IN
              IF ~Truthy(image) \/ image.kind # "str" THEN Raise(ValueError)
              ELSE Return(Selection(image.val, GetOr(d, "params", List(<<>>)).val))

-----------------------------------------------------------------------------
(* Twins *)

\* A twin uuid, split where twin_uuid[:8] cuts it.
Uuid(head, rest) == [head |-> head, rest |-> rest]
UuidHeads == {"aaaaaaaa", "bbbbbbbb"}

\* twin.metadata: not a mapping, a mapping without edge_fingerprint, one
\* claimed by another edge, one claimed under this host's fingerprint in
\* upper case, and one claimed by this host, without or with its own drivers
\* table.
TwinMetadata ==
    {PyNone, EmptyDict,
     Dict([edge_fingerprint |-> Str(OtherFingerprint), drivers |-> TableFull]),
     Dict([edge_fingerprint |-> Str(UpperFingerprint)]),
     Dict([edge_fingerprint |-> Str(HostFingerprint)])}
    \cup {Dict([edge_fingerprint |-> Str(HostFingerprint), drivers |-> t]) :
            t \in TwinDriverTables}

Twin(uuid, metadata) == [uuid |-> uuid, metadata |-> metadata]

\* The listings of n twins.  The backend lists every twin once: the n-th
\* twin's uuid ends in n, and twins may share their first 8 characters.
RECURSIVE ListingsOfLen(_)
ListingsOfLen(n) ==
    IF n = 0 THEN {<<>>}
    ELSE {Append(l, Twin(Uuid(h, n), m)) :
            l \in ListingsOfLen(n - 1), h \in UuidHeads, m \in TwinMetadata}

TwinListings == UNION {ListingsOfLen(n) : n \in 0..MaxTwins}

\* str.lower() on the strings of the model.
Lower(s) ==
    CASE s = UpperFingerprint -> HostFingerprint
      [] s = "Staging" -> "staging"
      [] s = "PRODUCTION" -> "production"
      [] s = "Production" -> "production"
      [] OTHER -> s

\* Matches comparing the fingerprints without regard to letter case.
Matches_Normalised(twin, fp) ==
    LET twin_metadata ==
            IF twin.metadata.kind = "dict" THEN twin.metadata ELSE EmptyDict
        claimed == Get(twin_metadata, "edge_fingerprint")
    IN claimed.kind = "str" /\ Lower(claimed.val) = Lower(fp)

\* startup.py 520-522: the twin is claimed by this edge.
Matches(twin, fp) ==
    LET twin_metadata ==
            IF twin.metadata.kind = "dict" THEN twin.metadata ELSE EmptyDict
    IN Get(twin_metadata, "edge_fingerprint") = Str(fp)

-----------------------------------------------------------------------------
(* credentials.json: load_credentials_envs; get_runtime_env_var *)

\* A credentials.json: what load_token finds in it (one of CredFileKinds)
\* and, when it is a JSON object, the object without its "token".
CredFile(kind, data) == [kind |-> kind, data |-> data]

\* key.startswith("CYBERWAVE_")
Namespace == "CYBERWAVE_"
NamespacedRests ==
    {"ENVIRONMENT", "EDGE_LOG_LEVEL", "API_URL", "BASE_URL", "MQTT_HOST",
     "TWIN_UUID", "TOKEN", "CAMERA"}
NamespacedKeys == {Namespace \o rest : rest \in NamespacedRests}
StartsWithNamespace(key) == key \in NamespacedKeys

\* The flat keys of the older credentials format, startup.py 117-123.
LegacyKeys ==
    {"CYBERWAVE_ENVIRONMENT", "CYBERWAVE_EDGE_LOG_LEVEL", "CYBERWAVE_API_URL",
     "CYBERWAVE_BASE_URL", "CYBERWAVE_MQTT_HOST"}

\* isinstance(value, str) and value.strip()
NonBlankStr(value) == value.kind = "str" /\ Strip(value.val) # ""

\* load_credentials_envs(), startup.py 86-127: the mapping returned (never
\* an exception: a JSON value that is not an object is tested for).
load_credentials_envs(file) ==
    IF file.kind \in {"absent", "unreadable", "invalid_json"} THEN <<>>
    ELSE IF file.kind = "non_object" THEN <<>>
    ELSE
    LET data == file.data
        raw_envs == Get(data, "envs")
        kept == IF raw_envs.kind = "dict"
                THEN {key \in DOMAIN raw_envs.val :
                        /\ StartsWithNamespace(key)
                        /\ NonBlankStr(raw_envs.val[key])}
                ELSE {}
        legacy == {key \in LegacyKeys \ kept : NonBlankStr(Get(data, key))}
    IN  [key \in kept \cup legacy |->
            IF key \in kept THEN Strip(raw_envs.val[key].val)
            ELSE Strip(data.val[key].val)]

\* os.getenv(name)
getenv(environ, name) == IF name \in DOMAIN environ THEN environ[name] ELSE None

\* get_runtime_env_var asking the credentials before the process environment.
get_runtime_env_var_CredentialsFirst(name, default, environ, file) ==
    LET process_value == getenv(environ, name)
        envs == load_credentials_envs(file)
    IN  IF name \in DOMAIN envs /\ Strip(envs[name]) # ""
        THEN Strip(envs[name])
        ELSE IF process_value # None /\ Strip(process_value) # ""
        THEN Strip(process_value)
        ELSE default

\* get_runtime_env_var(name, default), startup.py 130-139, in the process
\* environment `environ` and with this credentials.json.
get_runtime_env_var(name, default, environ, file) ==
    LET process_value == getenv(environ, name)
        envs == load_credentials_envs(file)
    IN  IF process_value # None /\ Strip(process_value) # ""
        THEN Strip(process_value)
        ELSE IF name \in DOMAIN envs /\ Strip(envs[name]) # ""
        THEN Strip(envs[name])
        ELSE default

-----------------------------------------------------------------------------
(* Containers *)

\* startup.py 292
ContainerName(twin_uuid) == <<"cyberwave-driver-", twin_uuid.head>>

\* A docker subprocess: its command line, and (history) the twin it is for.
\* A `docker run` has the options of its command line under `line` as well.
DockerOp(cmd, container, image, twin_uuid) ==
    [cmd |-> cmd, container |-> container, image |-> image, twin |-> twin_uuid]

\* What the docker subprocesses of one _run_docker_image call do; "n/a" for
\* a subprocess the call does not get to.
DockerOutcome(installed, rm, pull, run) ==
    [installed |-> installed, rm |-> rm, pull |-> pull, run |-> run]
DockerOutcomes ==
    {DockerOutcome(FALSE, "n/a", "n/a", "n/a"),
     DockerOutcome(TRUE, "timeout", "n/a", "n/a")}
    \cup {DockerOutcome(TRUE, rm, pull, "n/a") :
            rm \in {"ok", "nonzero"}, pull \in {"nonzero", "timeout"}}
    \cup {DockerOutcome(TRUE, rm, "ok", run) :
            rm \in {"ok", "nonzero"}, run \in {"ok", "nonzero", "timeout"}}

\* str(twin_uuid)
UuidText(twin_uuid) == twin_uuid.head \o "-" \o ToString(twin_uuid.rest)

\* The image names: with or without a registry that names its port, with or
\* without a tag.
Registries == {"", "localhost:5000/"}
Repositories == {"img", "img-mac"}
Tags == {"", ":v2"}
ImageRef(registry, repository, tag) == registry \o repository \o tag

\* ":" in image
ImagesWithColon ==
    {ImageRef(r, n, t) : r \in Registries \ {""}, n \in Repositories, t \in Tags}
    \cup {ImageRef(r, n, t) : r \in Registries, n \in Repositories, t \in Tags \ {""}}
ContainsColon(image) == image \in ImagesWithColon

\* startup.py 50
DEFAULT_ENVIRONMENT == "production"

\* What _run_docker_image reads of the host: the process environment,
\* credentials.json, whether <twin_uuid>.json exists, and what the docker
\* subprocesses do.
Host(environ, file, twin_json, docker) ==
    [environ |-> environ, file |-> file, twin_json |-> twin_json,
     docker |-> docker]

\* startup.py 293-295
runtime_environment(host) ==
    LET tier == get_runtime_env_var("CYBERWAVE_ENVIRONMENT", DEFAULT_ENVIRONMENT,
                                    host.environ, host.file)
    IN  Lower(IF tier \in {None, ""} THEN DEFAULT_ENVIRONMENT ELSE tier)

\* startup.py 297-301: the image reference pulled and run.
TaggedImage(image, tier) ==
    IF ~ContainsColon(image) /\ tier # "production"
    THEN image \o ":" \o tier
    ELSE image

\* startup.py 327-340: the keys _run_docker_image sets itself (tok: the
\* argument `token`).
ExplicitEnv(twin_uuid, tok, host) ==
    LET tier == runtime_environment(host)
        api_url == get_runtime_env_var("CYBERWAVE_API_URL", None,
                                       host.environ, host.file)
        mqtt_host == get_runtime_env_var("CYBERWAVE_MQTT_HOST", None,
                                         host.environ, host.file)
    IN  ("CYBERWAVE_TWIN_UUID" :> UuidText(twin_uuid))
        @@ ("CYBERWAVE_TOKEN" :> tok)
        @@ (IF api_url \notin {None, ""}
            THEN "CYBERWAVE_API_URL" :> api_url ELSE <<>>)
        @@ (IF mqtt_host \notin {None, ""}
            THEN "CYBERWAVE_MQTT_HOST" :> mqtt_host ELSE <<>>)
        @@ (IF tier # "production"
            THEN "CYBERWAVE_ENVIRONMENT" :> tier ELSE <<>>)

\* startup.py 342-345: the persisted variables that are forwarded.
ForwardedEnv(host) ==
    LET envs == load_credentials_envs(host.file) IN
    [key \in {k \in DOMAIN envs : StartsWithNamespace(k)} |-> envs[key]]

\* container_env with the persisted variables assigned, not set by default.
container_env_Overwrites(twin_uuid, tok, host) ==
    ForwardedEnv(host) @@ ExplicitEnv(twin_uuid, tok, host)

\* startup.py 327-345: the dict container_env; setdefault keeps the value
\* of a key that is already set.
container_env(twin_uuid, tok, host) ==
    ExplicitEnv(twin_uuid, tok, host) @@ ForwardedEnv(host)

\* startup.py 347-373: the command line of `docker run`: the -e options
\* made of container_env, the -e option for the snapshot when
\* <twin_uuid>.json exists (None when it does not), and the -v options.
RunCommand(image, params, twin_uuid, tok, host) ==
    [name |-> ContainerName(twin_uuid),
     detach |-> TRUE,
     restart |-> "unless-stopped",
     privileged |-> TRUE,
     network |-> "host",
     params |-> params,
     env |-> container_env(twin_uuid, tok, host),
     twin_json_file |->
        IF host.twin_json
        THEN "/app/" \o UuidText(twin_uuid) \o ".json"
        ELSE None,
     volumes |->
        {<<"CONFIG_DIR", "/app/.cyberwave">>}
        \cup (IF host.twin_json
              THEN {<<"CONFIG_DIR/" \o UuidText(twin_uuid) \o ".json",
                      "/app/" \o UuidText(twin_uuid) \o ".json">>}
              ELSE {}),
     image |-> image]
NoCommand == [name |-> <<>>]

\* The except clauses of the pull, startup.py 319-325, without the one for
\* the timeout.
PullFailed_TimeoutIgnored(outcome) == outcome = "nonzero"

\* startup.py 319-325: the pull ended in CalledProcessError or
\* TimeoutExpired.
PullFailed(outcome) == outcome \in {"nonzero", "timeout"}

\* _run_docker_image(image, params, twin_uuid=, token=), startup.py 272-418:
\* the subprocesses issued, the command line of `docker run` when it is
\* issued, and the outcome.  `docker rm` runs before the pull, without
\* check=True and outside any try: a non-zero exit is ignored, a timeout
\* raises TimeoutExpired.
_run_docker_image(image, params, twin_uuid, tok, host) ==
    LET d == host.docker
        container_name == ContainerName(twin_uuid)
        tagged == TaggedImage(image, runtime_environment(host))
        rm == DockerOp("rm", container_name, "", twin_uuid)
        pull == DockerOp("pull", <<>>, tagged, twin_uuid)
        cmd == RunCommand(tagged, params, twin_uuid, tok, host)
        run == DockerOp("run", container_name, tagged, twin_uuid)
               @@ [line |-> cmd]
    IN  IF ~d.installed
        THEN [out |-> Return(FALSE), ops |-> <<>>, cmd |-> NoCommand]
        ELSE IF d.rm = "timeout"
        THEN [out |-> Raise(TimeoutExpired), ops |-> <<rm>>, cmd |-> NoCommand]
        ELSE IF PullFailed(d.pull)
        THEN [out |-> Return(FALSE), ops |-> <<rm, pull>>, cmd |-> NoCommand]
        ELSE IF d.run # "ok"
        THEN [out |-> Return(FALSE), ops |-> <<rm, pull, run>>, cmd |-> cmd]
        ELSE [out |-> Return(TRUE), ops |-> <<rm, pull, run>>, cmd |-> cmd]

-----------------------------------------------------------------------------
(* The token in the log: load_token, validate_token, _run_docker_image *)

\* Texts are sequences of characters here, so that slices can be taken.
\* The character U+2026 of the f-strings:
Ellipsis == "..."

\* startup.py 72, 148, 381, 386-387: f"{token[:6]}...{token[-4:]}" if
\* len(token) > 12 else "***"
MaskThreshold == 12
MaskHead == 6
MaskTail == 4

Masked_Unmasked(text) == text

Masked(text) ==
    IF Len(text) > MaskThreshold
    THEN SubSeq(text, 1, MaskHead) \o <<Ellipsis>>
         \o SubSeq(text, Len(text) - MaskTail + 1, Len(text))
    ELSE <<"*", "*", "*">>

\* startup.py 376-382 and 384-393: the value of CYBERWAVE_TOKEN is masked,
\* every other value is shown as it is.
MaskedEnv(env) ==
    [k \in DOMAIN env |->
        IF k = "CYBERWAVE_TOKEN" THEN Masked(env[k]) ELSE env[k]]

\* A record handed to the logger: the function that logs, the level, and
\* the texts it shows where the token goes.
LogRecord(fn, level, shown) == [fn |-> fn, level |-> level, shown |-> shown]

\* load_token, startup.py 70-79: what it logs for the value of "token".
load_token_log(tok) ==
    IF tok # <<>>
    THEN <<LogRecord("load_token", "info", <<Masked(tok)>>)>>
    ELSE <<LogRecord("load_token", "warning", <<>>)>>

\* validate_token, startup.py 147-149
validate_token_log(tok) ==
    <<LogRecord("validate_token", "info", <<Masked(tok)>>)>>

\* _run_docker_image, startup.py 374-402: the two debug records when the
\* logger is enabled for DEBUG, then the info record.
_run_docker_image_log(image, params, twin_uuid, tok, host, debug) ==
    LET cmd == RunCommand(image, params, twin_uuid, tok, host)
        debug_env_vars == MaskedEnv(container_env(twin_uuid, tok, host))
        debug_cmd == [cmd EXCEPT !.env = MaskedEnv(@)]
    IN  (IF debug
         THEN <<LogRecord("_run_docker_image", "debug",
                          <<debug_env_vars["CYBERWAVE_TOKEN"]>>),
                LogRecord("_run_docker_image", "debug",
                          <<debug_cmd.env["CYBERWAVE_TOKEN"]>>)>>
         ELSE <<>>)
        \o <<LogRecord("_run_docker_image", "info", <<>>)>>

-----------------------------------------------------------------------------
(* Log forwarding: _stream_container_logs, _follow_container_logs *)

ContainerNames == {ContainerName(Uuid(h, 1)) : h \in UuidHeads}

\* Bound: the containers started under one name.
MaxRuns == 2

\* The threads of the process that run the tail of _run_docker_image; the
\* boot calls it from MainThread only.
MainThread == "MainThread"
Callers == {MainThread, "OtherThread"}

\* startup.py 37: the registry is empty when the module is imported.
NoThreads == <<>>

\* No container of any name: id counts the containers created under the
\* name so far, up tells whether the last one still exists.
NoContainers == [n \in ContainerNames |-> [id |-> 0, up |-> FALSE]]

\* A caller that is not inside _run_docker_image (0: no Thread object).
Returned == [pc |-> "returned", name |-> <<>>, existing |-> 0, thread |-> 0]

InCall(pc_, name, existing, thread) ==
    [pc |-> pc_, name |-> name, existing |-> existing, thread |-> thread]

\* threading.Thread(...), startup.py 427-432: created, not yet started.
NewThread(name) == [name |-> name, state |-> "initial", follows |-> 0]

\* Thread.is_alive(): started and its target has not returned.
is_alive(thread) == thread.state \in {"started", "following"}

\* dict.get, startup.py 423 (0 stands for None).
registry_get(registry, name) ==
    IF name \in DOMAIN registry THEN registry[name] ELSE 0

-----------------------------------------------------------------------------
(* <twin_uuid>.json: _deep_merge, write_or_update_twin_json_file *)

\* Python dicts are objects: heap[a] holds the items of the dict at address
\* a, and a dict held as a value is a reference to its address.
Ref(a) == [kind |-> "ref", val |-> a]

\* dict.copy(), startup.py 696: a new dict with the same items.
dict_copy_SameObject(heap, ref) == [heap |-> heap, ref |-> ref]

dict_copy(heap, ref) == [heap |-> Append(heap, heap[ref]), ref |-> Len(heap) + 1]

\* `merged[key] = ...`, startup.py 699 and 701
setitem(heap, ref, key, value) ==
    [heap EXCEPT ![ref] = (key :> value) @@ @]

\* startup.py 698
BothDicts(heap, merged, key, value) ==
    /\ key \in DOMAIN heap[merged]
    /\ heap[merged][key].kind = "ref"
    /\ value.kind = "ref"

\* What startup.py 701 stores under a key: the override's value.
Overriding_ExtendsLists(old, value) ==
    IF old.kind = "list" /\ value.kind = "list"
    THEN List(old.val \o value.val)
    ELSE value

Overriding(old, value) == value

RECURSIVE _deep_merge(_, _, _)
RECURSIVE merge_items(_, _, _, _)

\* startup.py 696 and 702
_deep_merge(heap, base, override) ==
    LET c == dict_copy(heap, base)
    IN  merge_items(c.heap, c.ref, override, DOMAIN c.heap[override])

\* startup.py 697-701: the loop over the items of override that remain.
merge_items(heap, merged, override, keys) ==
    IF keys = {} THEN [heap |-> heap, ref |-> merged]
    ELSE
    LET key == CHOOSE k \in keys : TRUE
        value == heap[override][key]
    IN  IF BothDicts(heap, merged, key, value)
        THEN LET r == _deep_merge(heap, heap[merged][key].val, value.val)
             IN  merge_items(setitem(r.heap, merged, key, Ref(r.ref)),
                             merged, override, keys \ {key})
        ELSE LET old == IF key \in DOMAIN heap[merged]
                        THEN heap[merged][key] ELSE Absent
             IN  merge_items(setitem(heap, merged, key, Overriding(old, value)),
                             merged, override, keys \ {key})

\* The value of the dict at an address, as json.dump would write it.
RECURSIVE Deref(_, _)
Deref(heap, ref) ==
    Dict([k \in DOMAIN heap[ref] |->
            IF heap[ref][k].kind = "ref"
            THEN Deref(heap, heap[ref][k].val)
            ELSE heap[ref][k]])

\* json.load, and the dicts to_dict returns: the object graph of a value,
\* built on the heap.
RECURSIVE Alloc(_, _)
RECURSIVE alloc_items(_, _, _, _)

Alloc(heap, value) ==
    alloc_items(Append(heap, <<>>), Len(heap) + 1, value, DOMAIN value.val)

alloc_items(heap, ref, value, keys) ==
    IF keys = {} THEN [heap |-> heap, ref |-> ref]
    ELSE
    LET key == CHOOSE k \in keys : TRUE
        v == value.val[key]
    IN  IF v.kind = "dict"
        THEN LET r == Alloc(heap, v)
             IN  alloc_items(setitem(r.heap, ref, key, Ref(r.ref)),
                             ref, value, keys \ {key})
        ELSE alloc_items(setitem(heap, ref, key, v), ref, value, keys \ {key})

\* startup.py 719-721: the existing content is loaded and twin_data merged
\* on top of it.
MergedOnto(existing_data, twin_data) ==
    LET e == Alloc(<<>>, existing_data)
        t == Alloc(e.heap, twin_data)
        r == _deep_merge(t.heap, e.ref, t.ref)
    IN  Deref(r.heap, r.ref)

\* A datetime of the SDK's response, and datetime.isoformat().
DateTime(iso) == [kind |-> "datetime", val |-> iso]
isoformat(obj) == Str(obj.val)

\* json.dump(twin_data, f, indent=2, default=_json_default), startup.py
\* 729-736: the value a reader of the complete file loads.
RECURSIVE json_dump(_)
json_dump(value) ==
    CASE value.kind = "dict" ->
            Dict([k \in DOMAIN value.val |-> json_dump(value.val[k])])
      [] value.kind = "datetime" -> isoformat(value)
      [] OTHER -> value

\* <twin_uuid>.json: absent, holding a complete JSON object, empty (opened
\* for writing, nothing written through yet) or holding the beginning of
\* the JSON text.
TwinFileAbsent == [kind |-> "absent", data |-> <<>>]
TwinFileEmpty == [kind |-> "empty", data |-> <<>>]
TwinFilePartial == [kind |-> "partial", data |-> <<>>]
TwinFileHolds(data) == [kind |-> "object", data |-> data]

\* Position and locals of write_or_update_twin_json_file: `remote` is the
\* twin_data argument once the asset is embedded (713), twin_data the local
\* that is written, done counts the calls that have ended and out is the
\* outcome of the last one.
WriterAt(pc_, done, remote, twin_data, out) ==
    [pc |-> pc_, done |-> done, remote |-> remote, twin_data |-> twin_data,
     out |-> out]

\* write_or_update_twin_json_file is not being run.
NotWriting == WriterAt("idle", 0, EmptyDict, EmptyDict, [kind |-> "pending", val |-> None])

-----------------------------------------------------------------------------
(* fetch_and_run_twin_drivers: the body of the loop over the twins *)

\* What client.assets.get answers: it raises, or gives an asset with this
\* metadata["drivers"].
AssetResponses == {Raise(RemoteError)} \cup {Return(t) : t \in DriverTables}

ResultRow(twin_uuid, driver_image, success) ==
    [twin_uuid |-> twin_uuid, driver_image |-> driver_image, success |-> success]

\* The effects of one pass: asset requested, snapshot
\* written, subprocesses, alerts sent, rows appended, and the exception that
\* leaves the loop (None when the pass ends normally or with `continue`).
Pass(fetched, snap, ops, al, rows, exc) ==
    [fetched |-> fetched, snap |-> snap, ops |-> ops,
     alerts |-> al, rows |-> rows, exc |-> exc]

\* _send_alert_for_twin, startup.py 612-632, has no try: a failing backend
\* call raises into the caller.  The exception that leaves the loop after an
\* alert that is followed by `raise exc` (exc = None: by nothing).
AfterAlert(alertOk, exc) == IF alertOk THEN exc ELSE RemoteError

\* The boots of the model run with no CYBERWAVE_ variable in the process
\* environment and no override in credentials.json, and the snapshot
\* <twin_uuid>.json has just been written.
BootHost_NoSnapshot(d) == Host(<<>>, CredFile("token", EmptyDict), FALSE, d)

BootHost(d) == Host(<<>>, CredFile("token", EmptyDict), TRUE, d)

\* startup.py 583-607: the driver is run; a row is appended when
\* _run_docker_image returns, an alert is sent when it raises.
RunPasses(twin, sel) ==
    UNION {
        IF r.out.kind = "raise"
        THEN {Pass(TRUE, TRUE, r.ops, <<twin.uuid>>, <<>>,
                   AfterAlert(alertOk, None)) : alertOk \in BOOLEAN}
        ELSE {Pass(TRUE, TRUE, r.ops, <<>>,
                   <<ResultRow(twin.uuid, sel.val.image, r.out.val)>>, None)}
        : r \in {_run_docker_image(sel.val.image, sel.val.params, twin.uuid,
                                   GoodToken, BootHost(d)) :
                    d \in DockerOutcomes}}

\* startup.py 543-580: the driver table is resolved, the default driver
\* selected and the snapshot written (write_or_update_twin_json_file opens
\* <uuid>.json for writing outside any try).
ResolvePasses(twin, asset) ==
    LET own == Get(twin.metadata, "drivers")
        drivers == IF Truthy(own) THEN own ELSE asset.val
    IN
    IF ~Truthy(drivers)
    THEN {Pass(TRUE, FALSE, <<>>, <<twin.uuid>>, <<>>,
               AfterAlert(alertOk, ValueError)) : alertOk \in BOOLEAN}
    ELSE
    LET sel == _get_best_driver_image_and_params(drivers) IN
    IF sel.kind = "raise"
    THEN {Pass(TRUE, FALSE, <<>>, <<>>, <<>>, sel.val)}
    ELSE {Pass(TRUE, FALSE, <<>>, <<>>, <<>>, "OSError")}
         \cup RunPasses(twin, sel)

\* The answers of client.assets.get that make a difference for this twin:
\* the asset's drivers table is read only when the twin has none of its own.
AssetChoices(twin) ==
    IF Truthy(Get(twin.metadata, "drivers"))
    THEN {Raise(RemoteError), Return(PyNone)}
    ELSE AssetResponses

\* startup.py 516-607 for one twin: every way the pass can go, over the
\* answers of the backend, the file system and docker.
TwinPasses(twin, fp) ==
    IF ~Matches(twin, fp)
    THEN {Pass(FALSE, FALSE, <<>>, <<>>, <<>>, None)}
    ELSE UNION {
        IF asset.kind = "raise"
        THEN {Pass(TRUE, FALSE, <<>>, <<>>, <<>>, None)}
        ELSE ResolvePasses(twin, asset)
        : asset \in AssetChoices(twin)}

-----------------------------------------------------------------------------
(* run_startup_checks: which step follows which *)

StepOrder ==
    <<"LoadCredentials", "ValidateToken", "ProbeBroker", "RegisterEdge",
      "LoadEnvironmentLink", "FetchAndRunDrivers">>

\* AfterLoadCredentials without the `return False` of startup.py 765.
AfterLoadCredentials_NoReturn(tok) ==
    [kind |-> "goto", val |-> "ValidateToken"]

\* startup.py 760-766
AfterLoadCredentials(tok) ==
    IF tok = None THEN Return(FALSE) ELSE [kind |-> "goto", val |-> "ValidateToken"]

\* AfterValidateToken without the `return False` of startup.py 777.
AfterValidateToken_NoReturn(valid) ==
    [kind |-> "goto", val |-> "ProbeBroker"]

\* startup.py 770-777
AfterValidateToken(valid) ==
    IF valid THEN [kind |-> "goto", val |-> "ProbeBroker"] ELSE Return(FALSE)

\* AfterProbeBroker with a failed probe ending the boot, as the other
\* failed checks do.
AfterProbeBroker_Hard(connected) ==
    IF connected THEN [kind |-> "goto", val |-> "RegisterEdge"] ELSE Return(FALSE)

\* startup.py 781-786
AfterProbeBroker(connected) ==
    [kind |-> "goto", val |-> "RegisterEdge"]

\* AfterRegisterEdge without the `return False` of startup.py 795.
AfterRegisterEdge_NoReturn(registered) ==
    [kind |-> "goto", val |-> "LoadEnvironmentLink"]

\* startup.py 790-795
AfterRegisterEdge(registered) ==
    IF registered THEN [kind |-> "goto", val |-> "LoadEnvironmentLink"]
    ELSE Return(FALSE)

\* AfterLoadEnvironmentLink without the `if environment_uuid:` of
\* startup.py 808.
AfterLoadEnvironmentLink_NoGuard(uuid) ==
    [kind |-> "goto", val |-> "FetchAndRunDrivers"]

\* startup.py 800-808, 826-827
AfterLoadEnvironmentLink(uuid) ==
    IF uuid # None THEN [kind |-> "goto", val |-> "FetchAndRunDrivers"]
    ELSE Return(TRUE)

\* The effect of a step's verdict on pc and result.
Continue(next) ==
    CASE next.kind = "goto" -> pc' = next.val /\ result' = result
      [] next.kind = "return" -> pc' = "done" /\ result' = Return(next.val)
      [] next.kind = "raise" -> pc' = "done" /\ result' = next

Running == [kind |-> "running", val |-> None]
Pending == [kind |-> "pending", val |-> None]

-----------------------------------------------------------------------------
\* No boot has started: the state after the module is imported.
NotStarted ==
    /\ pc = "LoadCredentials"
    /\ result = Running
    /\ steps = <<>>
    /\ token = None
    /\ token_valid = Pending
    /\ mqtt_ok = Pending
    /\ edge_ok = Pending
    /\ edgesCreated = {}
    /\ attempt = 0
    /\ envFirstSeen = None
    /\ envNoneAfter = 0
    /\ environment_uuid = None
    /\ fingerprint = None
    /\ twinsListed = FALSE
    /\ twins = <<>>
    /\ idx = 0
    /\ results = <<>>
    /\ assetsFetched = {}
    /\ snapshots = {}
    /\ dockerOps = <<>>
    /\ alerts = <<>>
    /\ _CONTAINER_LOG_THREADS = NoThreads
    /\ threads = <<>>
    /\ containers = NoContainers
    /\ callers = [c \in Callers |-> Returned]
    /\ writer = NotWriting
    /\ observed = {}
    /\ driverKeys = {}
    /\ journal = <<>>

\* The files a boot finds.
BootInit ==
    /\ NotStarted
    /\ credFile \in CredFileKinds
    /\ fpFile \in FpFiles
    /\ envFile \in EnvFileKinds
    /\ twinFile = TwinFileAbsent

Init ==
    /\ BootInit
    /\ fn_args = <<>>
    /\ fn_ret = Pending

fetchVars == <<fingerprint, twinsListed, twins, idx, results, assetsFetched,
               snapshots, dockerOps, alerts>>
envVars == <<attempt, envFirstSeen, envNoneAfter, environment_uuid>>

\* run_startup_checks step 1, startup.py 758-766
LoadCredentials ==
    /\ pc = "LoadCredentials"
    /\ steps' = Append(steps, "LoadCredentials")
    /\ LET t == load_token(credFile) IN
        IF t.kind = "raise"
        THEN Continue(t) /\ token' = token
        ELSE Continue(AfterLoadCredentials(t.val)) /\ token' = t.val
    /\ UNCHANGED <<credFile, fpFile, envFile, token_valid, mqtt_ok, edge_ok, edgesCreated,
                   envVars, fetchVars>>
    /\ UNCHANGED <<pureVars, restVars>>

\* run_startup_checks step 2, startup.py 768-777; validate_token 142-157
\* turns every failure of the SDK call into False.
ValidateToken ==
    /\ pc = "ValidateToken"
    /\ steps' = Append(steps, "ValidateToken")
    /\ \E valid \in BOOLEAN :
        /\ token_valid' = Return(valid)
        /\ Continue(AfterValidateToken(valid))
    /\ UNCHANGED <<credFile, fpFile, envFile, token, mqtt_ok, edge_ok,
                   edgesCreated, envVars, fetchVars>>
    /\ UNCHANGED <<pureVars, restVars>>

\* run_startup_checks step 3, startup.py 779-786; check_mqtt_connection
\* 160-186 turns a raising client into False.
ProbeBroker ==
    /\ pc = "ProbeBroker"
    /\ steps' = Append(steps, "ProbeBroker")
    /\ \E connected \in BOOLEAN :
        /\ mqtt_ok' = Return(connected)
        /\ Continue(AfterProbeBroker(connected))
    /\ UNCHANGED <<credFile, fpFile, envFile, token, token_valid, edge_ok, edgesCreated,
                   envVars, fetchVars>>
    /\ UNCHANGED <<pureVars, restVars>>

\* run_startup_checks step 4, startup.py 788-795
RegisterEdge ==
    /\ pc = "RegisterEdge"
    /\ steps' = Append(steps, "RegisterEdge")
    /\ \E saveOk \in BOOLEAN, response \in EdgeResponses :
        LET r == register_edge(fpFile, saveOk, response) IN
        /\ fpFile' = r.file
        /\ edgesCreated' = edgesCreated \cup r.sent
        /\ IF r.out.kind = "raise"
           THEN Continue(r.out) /\ edge_ok' = edge_ok
           ELSE Continue(AfterRegisterEdge(r.out.val)) /\ edge_ok' = r.out
    /\ UNCHANGED <<credFile, envFile, token, token_valid, mqtt_ok, envVars, fetchVars>>
    /\ UNCHANGED <<pureVars, restVars>>

\* load_environment_uuid: the existence test before the loop, startup.py
\* 195-198, as called at startup.py 799.
EnvExists ==
    /\ pc = "LoadEnvironmentLink"
    /\ steps' = Append(steps, "LoadEnvironmentLink")
    /\ IF envFile = "absent"
       THEN /\ envFirstSeen' = "absent"
            /\ envNoneAfter' = 1
            /\ environment_uuid' = None
            /\ attempt' = 0
            /\ Continue(AfterLoadEnvironmentLink(None))
       ELSE /\ envFirstSeen' = "present"
            /\ attempt' = 1
            /\ pc' = "EnvAttempt"
            /\ UNCHANGED <<environment_uuid, envNoneAfter, result>>
    /\ UNCHANGED <<credFile, fpFile, envFile, token, token_valid, mqtt_ok, edge_ok,
                   edgesCreated, fetchVars>>
    /\ UNCHANGED <<pureVars, restVars>>

\* load_environment_uuid: one pass of the loop, startup.py 199-225; the
\* sleep before the next pass is where the linking process may act.
EnvAttempt ==
    /\ pc = "EnvAttempt"
    /\ LET o == EnvAttemptOutcome(envFile, attempt, max_attempts(EnvRetries)) IN
        IF o.kind = "continue"
        THEN /\ attempt' = attempt + 1
             /\ UNCHANGED <<pc, result, environment_uuid, envNoneAfter>>
        ELSE /\ attempt' = 0
             /\ environment_uuid' = o.val
             /\ envNoneAfter' = IF o.val = None THEN attempt ELSE envNoneAfter
             /\ Continue(AfterLoadEnvironmentLink(o.val))
    /\ UNCHANGED <<steps, credFile, fpFile, envFile, token, token_valid, mqtt_ok, edge_ok,
                   edgesCreated, envFirstSeen, fetchVars>>
    /\ UNCHANGED <<pureVars, restVars>>

\* The linking process (another program) writes environment.json: it creates
\* the file, possibly leaving it incomplete for a while, then completes it.
LinkerWrite ==
    /\ \/ envFile = "absent" /\ envFile' \in {"invalid_json", "no_uuid", "valid"}
       \/ envFile \in {"invalid_json", "no_uuid"} /\ envFile' = "valid"
    /\ UNCHANGED <<pc, result, steps, credFile, fpFile, token, token_valid, mqtt_ok,
                   edge_ok, edgesCreated, envVars, fetchVars>>
    /\ UNCHANGED <<pureVars, restVars>>

\* run_startup_checks step 6 up to the loop: startup.py 808-815 and
\* fetch_and_run_twin_drivers 504-513.  A fingerprint that cannot be
\* determined is reported and the function goes on to its final return.
FetchStart ==
    /\ pc = "FetchAndRunDrivers"
    /\ steps' = Append(steps, "FetchAndRunDrivers")
    /\ \E saveOk \in BOOLEAN :
        LET g == get_or_create_fingerprint(fpFile, HostFingerprint, saveOk) IN
        /\ fpFile' = g.file
        /\ IF g.out.kind = "raise"
           THEN /\ Continue(g.out)
                /\ UNCHANGED <<fingerprint, twinsListed, twins, idx>>
           ELSE IF g.out.val = None
           THEN /\ Continue(Return(TRUE))
                /\ UNCHANGED <<fingerprint, twinsListed, twins, idx>>
           ELSE /\ fingerprint' = g.out.val
                /\ twinsListed' = TRUE
                /\ \/ /\ Continue(Raise(RemoteError))
                      /\ UNCHANGED <<twins, idx>>
                   \/ \E listing \in TwinListings :
                        /\ twins' = listing
                        /\ IF listing = <<>>
                           THEN Continue(Return(TRUE)) /\ idx' = idx
                           ELSE /\ pc' = "TwinLoop"
                                /\ idx' = 1
                                /\ result' = result
    /\ UNCHANGED <<credFile, envFile, token, token_valid, mqtt_ok, edge_ok, edgesCreated,
                   envVars, results, assetsFetched, snapshots,
                   dockerOps, alerts>>
    /\ UNCHANGED <<pureVars, restVars>>

\* One pass of the loop of fetch_and_run_twin_drivers, startup.py 515-607;
\* after the last twin the function returns (609) and run_startup_checks
\* reports and returns True (816-827).
ProcessTwin ==
    /\ pc = "TwinLoop"
    /\ \E p \in TwinPasses(twins[idx], fingerprint) :
        /\ assetsFetched' = IF p.fetched THEN assetsFetched \cup {idx}
                            ELSE assetsFetched
        /\ snapshots' = IF p.snap THEN snapshots \cup {twins[idx].uuid}
                        ELSE snapshots
        /\ dockerOps' = dockerOps \o p.ops
        /\ alerts' = alerts \o p.alerts
        /\ results' = results \o p.rows
        /\ IF p.exc # None
           THEN Continue(Raise(p.exc)) /\ idx' = idx
           ELSE IF idx = Len(twins)
           THEN Continue(Return(TRUE)) /\ idx' = idx + 1
           ELSE idx' = idx + 1 /\ UNCHANGED <<pc, result>>
    /\ UNCHANGED <<steps, credFile, fpFile, envFile, token, token_valid, mqtt_ok, edge_ok,
                   edgesCreated, envVars, fingerprint, twinsListed, twins>>
    /\ UNCHANGED <<pureVars, restVars>>

Next ==
    \/ LoadCredentials
    \/ ValidateToken
    \/ ProbeBroker
    \/ RegisterEdge
    \/ EnvExists
    \/ EnvAttempt
    \/ LinkerWrite
    \/ FetchStart
    \/ ProcessTwin

Spec == Init /\ [][Next]_vars

TypeOK ==
    /\ pc \in {"LoadCredentials", "ValidateToken", "ProbeBroker", "RegisterEdge",
               "LoadEnvironmentLink", "EnvAttempt", "FetchAndRunDrivers",
               "TwinLoop", "done"}
    /\ result.kind \in {"running", "return", "raise"}
    /\ (pc = "done") = (result.kind # "running")

-----------------------------------------------------------------------------
(* _get_best_driver_image_and_params applied on its own to every table *)

SelectInit ==
    /\ BootInit
    /\ credFile = "absent"
    /\ fpFile = FpFileAbsent
    /\ envFile = "absent"
    /\ twinFile = TwinFileAbsent
    /\ fn_args \in {<<t>> : t \in AllDriverTables}
    /\ fn_ret = Pending

Select ==
    /\ fn_ret = Pending
    /\ fn_ret' = _get_best_driver_image_and_params(fn_args[1])
    /\ UNCHANGED <<bootVars, fn_args, restVars>>

SelectNext == Select

SpecSelect == SelectInit /\ [][SelectNext]_vars

-----------------------------------------------------------------------------
(* get_or_create_fingerprint called again and again, on every content of    *)
(* fingerprint.json and whatever generate_fingerprint derives at the time   *)

GeneratedFingerprints ==
    {HostFingerprint, OtherFingerprint, StaleFingerprint, UpperFingerprint}

FingerprintInit ==
    /\ NotStarted
    /\ credFile = "absent"
    /\ fpFile \in AllFpFiles
    /\ envFile = "absent"
    /\ twinFile = TwinFileAbsent
    /\ fn_args = <<>>
    /\ fn_ret = Pending

\* One call: fn_args keeps the file the call found.
GetOrCreateFingerprint ==
    /\ \E generated \in GeneratedFingerprints, saveOk \in BOOLEAN :
        LET g == get_or_create_fingerprint(fpFile, generated, saveOk) IN
        /\ fn_args' = <<fpFile, generated, saveOk>>
        /\ fn_ret' = [kind |-> g.out.kind, val |-> g.out.val, calls |-> g.calls]
        /\ fpFile' = g.file
    /\ UNCHANGED <<pc, result, steps, credFile, envFile, token, token_valid,
                   mqtt_ok, edge_ok, edgesCreated, envVars, fetchVars,
                   restVars>>

FingerprintNext == GetOrCreateFingerprint

SpecFingerprint == FingerprintInit /\ [][FingerprintNext]_vars

-----------------------------------------------------------------------------
(* load_token, load_credentials_envs and get_runtime_env_var applied on    *)
(* their own to every credentials.json and process environment            *)

\* The names asked for: a legacy key, a namespaced key that is not a legacy
\* key, and a name outside the namespace.
SettingNames == {"CYBERWAVE_API_URL", "CYBERWAVE_CAMERA", "HTTPS_PROXY"}

\* What a key of credentials.json may hold.
SettingValues(text) ==
    {Absent, PyInt(5), Str(""), Str(Blank), Str(text), Str(Pad(text))}

\* The objects credentials.json may hold, as far as `name` goes.
CredentialsData(name) ==
    {DictOf(("envs" :> e) @@ (name :> flat)) :
        e \in {Absent, List(<<>>)}
              \cup {DictOf(name :> v) : v \in SettingValues("https://envs")},
        flat \in SettingValues("https://flat")}

CredFiles(name) ==
    {CredFile(k, PyNone) :
        k \in {"absent", "unreadable", "invalid_json", "non_object"}}
    \cup {CredFile(k, d) : k \in {"no_token", "non_string_token", "token"},
                           d \in CredentialsData(name)}

\* The process environments, as far as `name` goes.
Environs(name) ==
    {<<>>} \cup {name :> v : v \in {"", Blank, "https://env", Pad("https://env")}}

CredentialsInit ==
    /\ NotStarted
    /\ credFile = "absent"
    /\ fpFile = FpFileAbsent
    /\ envFile = "absent"
    /\ twinFile = TwinFileAbsent
    /\ \E name \in SettingNames :
        fn_args \in {<<name, default, environ, file>> :
                        default \in {None, "default"},
                        environ \in Environs(name),
                        file \in CredFiles(name)}
    /\ fn_ret = Pending

Applied(fn, out) == [fn |-> fn, kind |-> out.kind, val |-> out.val]

LoadToken ==
    /\ fn_ret = Pending
    /\ fn_ret' = Applied("load_token", load_token(fn_args[4].kind))
    /\ UNCHANGED <<bootVars, fn_args, restVars>>

LoadCredentialsEnvs ==
    /\ fn_ret = Pending
    /\ fn_ret' = Applied("load_credentials_envs",
                         Return(load_credentials_envs(fn_args[4])))
    /\ UNCHANGED <<bootVars, fn_args, restVars>>

GetRuntimeEnvVar ==
    /\ fn_ret = Pending
    /\ fn_ret' = Applied("get_runtime_env_var",
                         Return(get_runtime_env_var(fn_args[1], fn_args[2],
                                                    fn_args[3], fn_args[4])))
    /\ UNCHANGED <<bootVars, fn_args, restVars>>

CredentialsNext ==
    \/ LoadToken
    \/ LoadCredentialsEnvs
    \/ GetRuntimeEnvVar

SpecCredentials == CredentialsInit /\ [][CredentialsNext]_vars

-----------------------------------------------------------------------------
(* _run_docker_image applied on its own to every image name, process       *)
(* environment, credentials.json and behaviour of docker                   *)

\* A credentials.json whose `envs` holds every key _run_docker_image sets
\* itself, a key it does not set, a key outside the namespace and this tier.
OverridesData(tier) ==
    DictOf("envs" :> DictOf(
        ("CYBERWAVE_TWIN_UUID" :> Str("other-uuid"))
        @@ ("CYBERWAVE_TOKEN" :> Str("other-token"))
        @@ ("CYBERWAVE_API_URL" :> Str("https://envs"))
        @@ ("CYBERWAVE_MQTT_HOST" :> Str("mqtt-envs"))
        @@ ("CYBERWAVE_CAMERA" :> Str("cam0"))
        @@ ("HTTPS_PROXY" :> Str("proxy"))
        @@ ("CYBERWAVE_ENVIRONMENT" :> tier)))

DockerCredFiles ==
    {CredFile("absent", PyNone), CredFile("non_object", PyNone),
     CredFile("token", EmptyDict),
     CredFile("token", DictOf("CYBERWAVE_ENVIRONMENT" :> Str("dev")))}
    \cup {CredFile("token", OverridesData(tier)) :
            tier \in {Absent, Str("staging"), Str("dev"), Str("Production")}}

DockerEnvirons ==
    {tier @@ urls :
        tier \in {<<>>} \cup {"CYBERWAVE_ENVIRONMENT" :> v :
                    v \in {Blank, "production", "PRODUCTION", "staging",
                           "Staging", Pad("staging")}},
        urls \in {<<>>, ("CYBERWAVE_API_URL" :> "https://env")
                        @@ ("CYBERWAVE_MQTT_HOST" :> "mqtt-env")}}

DockerInit ==
    /\ NotStarted
    /\ credFile = "absent"
    /\ fpFile = FpFileAbsent
    /\ envFile = "absent"
    /\ twinFile = TwinFileAbsent
    /\ fn_args \in
        {<<ImageRef(r, "img", t), <<"--x">>, Uuid("aaaaaaaa", 1), GoodToken,
           Host(environ, file, twin_json, d)>> :
            r \in Registries, t \in Tags, environ \in DockerEnvirons,
            file \in DockerCredFiles, twin_json \in BOOLEAN,
            d \in DockerOutcomes}
    /\ fn_ret = Pending

RunDockerImage ==
    /\ fn_ret = Pending
    /\ LET r == _run_docker_image(fn_args[1], fn_args[2], fn_args[3],
                                  fn_args[4], fn_args[5])
       IN  fn_ret' = [kind |-> r.out.kind, val |-> r.out.val, ops |-> r.ops,
                      cmd |-> r.cmd]
    /\ UNCHANGED <<bootVars, fn_args, restVars>>

DockerNext == RunDockerImage

SpecDocker == DockerInit /\ [][DockerNext]_vars

-----------------------------------------------------------------------------
(* The tail of a successful _run_docker_image, called again and again for   *)
(* the same container names, and the forwarder threads it starts           *)

LogsInit ==
    /\ NotStarted
    /\ credFile = "absent"
    /\ fpFile = FpFileAbsent
    /\ envFile = "absent"
    /\ twinFile = TwinFileAbsent
    /\ fn_args = <<>>
    /\ fn_ret = Pending

logFrame == UNCHANGED <<bootVars, pureVars, jsonVars, journal>>

\* startup.py 303-308: `docker rm -f <name>` removes the container of that
\* name, if any.
DockerRm(c) ==
    /\ callers[c].pc = "returned"
    /\ \E name \in ContainerNames :
        /\ containers[name].id < MaxRuns
        /\ containers' = [containers EXCEPT ![name].up = FALSE]
        /\ callers' = [callers EXCEPT ![c] = InCall("removed", name, 0, 0)]
    /\ UNCHANGED <<_CONTAINER_LOG_THREADS, threads>>
    /\ logFrame

\* startup.py 403-418: `docker run --name <name>` starts a new container,
\* or fails because the name is taken and the function returns False.
DockerRun(c) ==
    /\ callers[c].pc = "removed"
    /\ LET name == callers[c].name IN
        IF containers[name].up
        THEN /\ callers' = [callers EXCEPT ![c] = Returned]
             /\ UNCHANGED containers
        ELSE /\ containers' = [containers EXCEPT
                                  ![name] = [id |-> @.id + 1, up |-> TRUE]]
             /\ callers' = [callers EXCEPT ![c].pc = "stream"]
    /\ UNCHANGED <<_CONTAINER_LOG_THREADS, threads>>
    /\ logFrame

\* _stream_container_logs, startup.py 423
Lookup(c) ==
    /\ callers[c].pc = "stream"
    /\ callers' = [callers EXCEPT
                      ![c].pc = "test",
                      ![c].existing =
                          registry_get(_CONTAINER_LOG_THREADS, callers[c].name)]
    /\ UNCHANGED <<_CONTAINER_LOG_THREADS, threads, containers>>
    /\ logFrame

\* _stream_container_logs, startup.py 424-432
Test(c) ==
    /\ callers[c].pc = "test"
    /\ LET existing == callers[c].existing IN
        IF existing # 0 /\ is_alive(threads[existing])
        THEN /\ callers' = [callers EXCEPT ![c] = Returned]
             /\ UNCHANGED threads
        ELSE /\ threads' = Append(threads, NewThread(callers[c].name))
             /\ callers' = [callers EXCEPT ![c].pc = "register",
                                           ![c].thread = Len(threads) + 1]
    /\ UNCHANGED <<_CONTAINER_LOG_THREADS, containers>>
    /\ logFrame

\* _stream_container_logs, startup.py 433
Register(c) ==
    /\ callers[c].pc = "register"
    /\ _CONTAINER_LOG_THREADS' =
        (callers[c].name :> callers[c].thread) @@ _CONTAINER_LOG_THREADS
    /\ callers' = [callers EXCEPT ![c].pc = "start"]
    /\ UNCHANGED <<threads, containers>>
    /\ logFrame

\* _stream_container_logs, startup.py 434; the caller returns to
\* _run_docker_image, which returns True (412).
Start(c) ==
    /\ callers[c].pc = "start"
    /\ threads' = [threads EXCEPT ![callers[c].thread].state = "started"]
    /\ callers' = [callers EXCEPT ![c] = Returned]
    /\ UNCHANGED <<_CONTAINER_LOG_THREADS, containers>>
    /\ logFrame

\* _follow_container_logs, startup.py 439-455: `docker logs -f <name>`
\* attaches to the container that has the name at that moment (follows = 0:
\* there is none, and docker logs ends at once).
Popen(t) ==
    /\ threads[t].state = "started"
    /\ LET c == containers[threads[t].name] IN
        threads' = [threads EXCEPT
                       ![t].state = "following",
                       ![t].follows = IF c.up THEN c.id ELSE 0]
    /\ UNCHANGED <<_CONTAINER_LOG_THREADS, containers, callers>>
    /\ logFrame

\* _follow_container_logs, startup.py 462-486: the stream ends when the
\* followed container is removed, and the thread's target returns.
EndOfStream(t) ==
    /\ threads[t].state = "following"
    /\ LET c == containers[threads[t].name] IN
        ~c.up \/ c.id # threads[t].follows
    /\ threads' = [threads EXCEPT ![t].state = "stopped"]
    /\ UNCHANGED <<_CONTAINER_LOG_THREADS, containers, callers>>
    /\ logFrame

Forward == \E t \in DOMAIN threads : Popen(t) \/ EndOfStream(t)

Call(c) ==
    \/ DockerRm(c)
    \/ DockerRun(c)
    \/ Lookup(c)
    \/ Test(c)
    \/ Register(c)
    \/ Start(c)

\* Any thread of the process may be a caller.
LogsNext ==
    \/ \E c \in Callers : Call(c)
    \/ Forward

SpecLogs == LogsInit /\ [][LogsNext]_vars

\* The boot: MainThread is the only caller.  A call that has begun goes on
\* and every started thread is scheduled; nothing obliges the program to
\* run a driver once more.
RestartNext ==
    \/ Call(MainThread)
    \/ Forward

InProgress(c) ==
    DockerRun(c) \/ Lookup(c) \/ Test(c) \/ Register(c) \/ Start(c)

SpecRestart ==
    /\ LogsInit
    /\ [][RestartNext]_vars
    /\ WF_vars(InProgress(MainThread))
    /\ WF_vars(Forward)

-----------------------------------------------------------------------------
(* _deep_merge applied on its own, and once more to its result with the    *)
(* same override                                                            *)

\* The items of a dict: the keys of f whose value is not Absent.
Items(f) == DictOf(f).val

\* The object graphs json.load or to_dict may build from address `at` on: a
\* dict whose "b" may hold a dict whose "x" may hold a dict.  A dict that is
\* not referred to is left empty.
ObjectGraphs(at) ==
    {<<Items(("a" :> a) @@ ("b" :> b)),
       Items(("x" :> x) @@ ("y" :> y)),
       Items("z" :> z)>> :
        a \in {Absent, PyInt(1), PyInt(2), List(<<"p">>)},
        b \in {Absent, PyInt(1), List(<<"p">>), Ref(at + 2)},
        x \in {Absent, PyInt(1), Ref(at + 3)},
        y \in {Absent, PyInt(1), PyInt(2)},
        z \in {Absent, PyInt(1), PyInt(2)}}

\* The dicts of the graph that its first dict does not reach hold nothing.
NoGarbage(g) ==
    /\ ("b" \in DOMAIN g[1] /\ g[1]["b"].kind = "ref") \/ (g[2] = <<>> /\ g[3] = <<>>)
    /\ ("x" \in DOMAIN g[2] /\ g[2]["x"].kind = "ref") \/ g[3] = <<>>

BaseGraphs == {g \in ObjectGraphs(0) : NoGarbage(g)}
OverrideGraphs == {g \in ObjectGraphs(3) : NoGarbage(g)}

MergeInit ==
    /\ NotStarted
    /\ credFile = "absent"
    /\ fpFile = FpFileAbsent
    /\ envFile = "absent"
    /\ twinFile = TwinFileAbsent
    /\ fn_args \in {<<b \o o, 1, Len(b) + 1>> : b \in BaseGraphs, o \in OverrideGraphs}
    /\ fn_ret = Pending

Merged(r, again, prev) ==
    [kind |-> "return", val |-> r.ref, heap |-> r.heap, again |-> again,
     prev |-> prev]

\* _deep_merge(base, override)
DeepMerge ==
    /\ fn_ret = Pending
    /\ fn_ret' = Merged(_deep_merge(fn_args[1], fn_args[2], fn_args[3]),
                        FALSE, fn_args[2])
    /\ UNCHANGED <<bootVars, fn_args, restVars>>

\* _deep_merge(result, override)
DeepMergeAgain ==
    /\ fn_ret.kind = "return"
    /\ ~fn_ret.again
    /\ fn_ret' = Merged(_deep_merge(fn_ret.heap, fn_ret.val, fn_args[3]),
                        TRUE, fn_ret.val)
    /\ UNCHANGED <<bootVars, fn_args, restVars>>

MergeNext ==
    \/ DeepMerge
    \/ DeepMergeAgain

SpecMerge == MergeInit /\ [][MergeNext]_vars

-----------------------------------------------------------------------------
(* write_or_update_twin_json_file called boot after boot for one twin,     *)
(* while the driver container of that twin reads and updates the file      *)

\* Bound: the calls of write_or_update_twin_json_file.
MaxWrites == 2

\* twin.to_dict() and asset.to_dict() as the backend has them at a boot.
TwinDatas ==
    {DictOf(("name" :> Str(n)) @@ ("note" :> note)
            @@ ("updated_at" :> DateTime("2026-01-01T00:00:00"))) :
        n \in {"arm", "arm2"}, note \in {Absent, Str("remote")}}
AssetDatas == {DictOf("kind" :> Str("so101"))}

\* The keys the driver adds to the file.
DriverKeys == {"calibration", "note"}

\* What the previous boot left.
PreviousTwinFiles ==
    {TwinFileAbsent,
     TwinFileHolds(DictOf(("name" :> Str("arm"))
                          @@ ("updated_at" :> Str("2025-01-01T00:00:00"))
                          @@ ("asset" :> DictOf("kind" :> Str("so100")))))}

SnapshotInit ==
    /\ NotStarted
    /\ credFile = "absent"
    /\ fpFile = FpFileAbsent
    /\ envFile = "absent"
    /\ twinFile \in PreviousTwinFiles
    /\ fn_args = <<>>
    /\ fn_ret = Pending

jsonFrame == UNCHANGED <<bootVars, pureVars, logVars, journal>>

\* The call, and startup.py 713: twin_data["asset"] = asset_data
BeginWrite ==
    /\ writer.pc = "idle"
    /\ writer.done < MaxWrites
    /\ \E twin_data \in TwinDatas, asset_data \in AssetDatas :
        LET data == Dict(("asset" :> asset_data) @@ twin_data.val)
        IN  writer' = WriterAt("exists", writer.done, data, data, Pending)
    /\ UNCHANGED <<twinFile, observed, driverKeys>>
    /\ jsonFrame

\* startup.py 717
ExistsTest ==
    /\ writer.pc = "exists"
    /\ writer' = [writer EXCEPT
                     !.pc = IF twinFile.kind = "absent" THEN "open" ELSE "load"]
    /\ UNCHANGED <<twinFile, observed, driverKeys>>
    /\ jsonFrame

\* startup.py 718-727: a file that is gone or does not parse is reported
\* and twin_data stays as it is.
LoadExisting ==
    /\ writer.pc = "load"
    /\ writer' = [writer EXCEPT
                     !.pc = "open",
                     !.twin_data = IF twinFile.kind = "object"
                                   THEN MergedOnto(twinFile.data, @)
                                   ELSE @]
    /\ UNCHANGED <<twinFile, observed, driverKeys>>
    /\ jsonFrame

\* startup.py 735: open(twin_json_file, "w") empties the file, or raises
\* OSError, which leaves the function.
OpenForWriting ==
    /\ writer.pc = "open"
    /\ \/ /\ twinFile' = TwinFileEmpty
          /\ writer' = [writer EXCEPT !.pc = "dump"]
       \/ /\ writer' = [writer EXCEPT !.pc = "idle", !.done = @ + 1,
                                      !.out = Raise("OSError")]
          /\ UNCHANGED twinFile
    /\ UNCHANGED <<observed, driverKeys>>
    /\ jsonFrame

\* startup.py 736: json.dump writes piece by piece; the buffer of the file
\* object is written through whenever it is full.
WriteThrough ==
    /\ writer.pc = "dump"
    /\ twinFile = TwinFileEmpty
    /\ twinFile' = TwinFilePartial
    /\ UNCHANGED <<writer, observed, driverKeys>>
    /\ jsonFrame

\* startup.py 735-737: the end of the with block writes the rest, and the
\* function returns True.
CloseFile ==
    /\ writer.pc = "dump"
    /\ twinFile' = TwinFileHolds(json_dump(writer.twin_data))
    /\ writer' = [writer EXCEPT !.pc = "idle", !.done = @ + 1,
                                !.out = Return(TRUE)]
    /\ UNCHANGED <<observed, driverKeys>>
    /\ jsonFrame

\* The driver container reads the file it has mounted.
DriverReads ==
    /\ twinFile.kind # "absent"
    /\ observed' = observed \cup {twinFile.kind}
    /\ UNCHANGED <<twinFile, writer, driverKeys>>
    /\ jsonFrame

\* The driver container adds a key to the file, in one step.
DriverWrites ==
    /\ twinFile.kind = "object"
    /\ \E key \in DriverKeys :
        /\ twinFile' = TwinFileHolds(
                Dict((key :> Str("driver")) @@ twinFile.data.val))
        /\ driverKeys' = driverKeys \cup {key}
    /\ UNCHANGED <<writer, observed>>
    /\ jsonFrame

SnapshotNext ==
    \/ BeginWrite
    \/ ExistsTest
    \/ LoadExisting
    \/ OpenForWriting
    \/ WriteThrough
    \/ CloseFile
    \/ DriverReads
    \/ DriverWrites

SpecSnapshot == SnapshotInit /\ [][SnapshotNext]_vars

-----------------------------------------------------------------------------
(* The records a boot logs about its token, for tokens of every length     *)

\* Bound: the length of the token.
MaxTokenLen == 16

TokenText(n) == [i \in 1..n |-> ToString(i % 10)]
TokenTexts == {TokenText(n) : n \in 0..MaxTokenLen}

SecretsInit ==
    /\ NotStarted
    /\ credFile = "absent"
    /\ fpFile = FpFileAbsent
    /\ envFile = "absent"
    /\ twinFile = TwinFileAbsent
    /\ fn_args \in {<<tok, debug, Host(<<>>, file, TRUE, DockerOutcome(TRUE, "ok", "ok", "ok"))>> :
                        tok \in TokenTexts, debug \in BOOLEAN,
                        file \in {CredFile("token", EmptyDict),
                                  CredFile("token", OverridesData(Str("dev")))}}
    /\ fn_ret = Pending

secretsFrame == UNCHANGED <<bootVars, fn_args, logVars, jsonVars>>

\* run_startup_checks step 1: load_token
LogLoadToken ==
    /\ fn_ret = Pending
    /\ journal' = journal \o load_token_log(fn_args[1])
    /\ fn_ret' = IF fn_args[1] # <<>> THEN Applied("load_token", Return(TRUE))
                 ELSE Applied("run_startup_checks", Return(FALSE))
    /\ secretsFrame

\* run_startup_checks step 2: validate_token
LogValidateToken ==
    /\ fn_ret # Pending
    /\ fn_ret.fn = "load_token"
    /\ journal' = journal \o validate_token_log(fn_args[1])
    /\ fn_ret' = Applied("validate_token", Return(TRUE))
    /\ secretsFrame

\* run_startup_checks step 6: _run_docker_image for a matched twin
LogRunDockerImage ==
    /\ fn_ret # Pending
    /\ fn_ret.fn = "validate_token"
    /\ journal' = journal \o _run_docker_image_log(
                        "img", <<"--x">>, Uuid("aaaaaaaa", 1), fn_args[1],
                        fn_args[3], fn_args[2])
    /\ fn_ret' = Applied("_run_docker_image", Return(TRUE))
    /\ secretsFrame

SecretsNext ==
    \/ LogLoadToken
    \/ LogValidateToken
    \/ LogRunDockerImage

SpecSecrets == SecretsInit /\ [][SecretsNext]_vars

-----------------------------------------------------------------------------
(* The `status` subcommand, main.py 52-88, on every config directory       *)

NotImplementedError == "NotImplementedError"

\* load_devices(), startup.py 53-55
load_devices == Raise(NotImplementedError)

\* validate_token(token), startup.py 142-157, as register_edge is given:
\* the outcome, fingerprint.json afterwards and the fingerprints sent to the
\* backend.  It lists the workspaces and writes nothing.
validate_token_Registers(file, valid) == register_edge(file, TRUE, "edge")

validate_token(file, valid) ==
    [out |-> Return(valid), file |-> file, sent |-> {}]

StatusInit ==
    /\ NotStarted
    /\ credFile \in CredFileKinds
    /\ fpFile \in AllFpFiles
    /\ envFile \in EnvFileKinds
    /\ twinFile \in PreviousTwinFiles
    /\ fn_args = <<credFile, fpFile, envFile, twinFile>>
    /\ fn_ret = Pending

statusFrame ==
    UNCHANGED <<pc, result, steps, credFile, envFile, token, token_valid,
                mqtt_ok, edge_ok, envVars, fetchVars, fn_args, restVars>>

\* main.py 57-65
StatusLoadToken ==
    /\ fn_ret = Pending
    /\ LET t == load_token(credFile) IN
        fn_ret' = IF t.kind = "raise" THEN Applied("status", t)
                  ELSE IF t.val = None THEN Applied("status", Return(None))
                  ELSE Applied("load_token", t)
    /\ UNCHANGED <<fpFile, edgesCreated>>
    /\ statusFrame

\* main.py 67-73
StatusValidateToken ==
    /\ fn_ret # Pending
    /\ fn_ret.fn = "load_token"
    /\ \E valid \in BOOLEAN :
        LET r == validate_token(fpFile, valid) IN
        /\ fpFile' = r.file
        /\ edgesCreated' = edgesCreated \cup r.sent
        /\ fn_ret' = IF r.out.val THEN Applied("validate_token", r.out)
                     ELSE Applied("status", Return(None))
    /\ statusFrame

\* main.py 75-78; check_mqtt_connection, startup.py 160-186, connects and
\* disconnects and turns every failure into False.
StatusProbeBroker ==
    /\ fn_ret # Pending
    /\ fn_ret.fn = "validate_token"
    /\ \E connected \in BOOLEAN :
        fn_ret' = Applied("check_mqtt_connection", Return(connected))
    /\ UNCHANGED <<fpFile, edgesCreated>>
    /\ statusFrame

\* main.py 80-88
StatusLoadDevices ==
    /\ fn_ret # Pending
    /\ fn_ret.fn = "check_mqtt_connection"
    /\ fn_ret' = IF load_devices.kind = "raise"
                 THEN Applied("status", load_devices)
                 ELSE Applied("status", Return(None))
    /\ UNCHANGED <<fpFile, edgesCreated>>
    /\ statusFrame

StatusNext ==
    \/ StatusLoadToken
    \/ StatusValidateToken
    \/ StatusProbeBroker
    \/ StatusLoadDevices

SpecStatus == StatusInit /\ [][StatusNext]_vars

-----------------------------------------------------------------------------
(* Properties of the boot sequence *)

Attempted(step) == \E i \in 1..Len(steps) : steps[i] = step

\* The steps attempted are the first Len(steps) steps of the fixed order.
InOrder == Len(steps) <= Len(StepOrder) /\ \A i \in 1..Len(steps) : steps[i] = StepOrder[i]

\* C1: when validate_token returns false, run_startup_checks returns False
\* and the broker probe, the edge registration, the environment link and the
\* twin fetch are never attempted in that boot.
C1_TokenFailureHalts ==
    token_valid = Return(FALSE) =>
        /\ pc = "done"
        /\ result = Return(FALSE)
        /\ steps = <<"LoadCredentials", "ValidateToken">>
        /\ mqtt_ok = Pending
        /\ edge_ok = Pending
        /\ edgesCreated = {}
        /\ envFirstSeen = None
        /\ ~twinsListed

C1_Witness == token_valid = Return(FALSE) /\ pc = "done"

C3_RegisterFailureHalts ==
    edge_ok = Return(FALSE) =>
        /\ pc = "done"
        /\ result = Return(FALSE)
        /\ steps = <<"LoadCredentials", "ValidateToken", "ProbeBroker", "RegisterEdge">>
        /\ envFirstSeen = None
        /\ ~twinsListed
        /\ snapshots = {}
        /\ dockerOps = <<>>

C3_Witness == edge_ok = Return(FALSE) /\ edgesCreated # {} /\ pc = "done"

C5_NoLinkSkipsFetch ==
    envNoneAfter > 0 =>
        /\ pc = "done"
        /\ result = Return(TRUE)
        /\ environment_uuid = None
        /\ ~Attempted("FetchAndRunDrivers")
        /\ ~twinsListed
        /\ twins = <<>>
        /\ snapshots = {}
        /\ dockerOps = <<>>

C5_Witness == envNoneAfter = max_attempts(EnvRetries) /\ pc = "done"

-----------------------------------------------------------------------------
(* Properties of the twin loop *)

\* twin.metadata is a mapping whose edge_fingerprint is exactly fp.
Claimed(twin, fp) ==
    /\ twin.metadata.kind = "dict"
    /\ "edge_fingerprint" \in DOMAIN twin.metadata.val
    /\ twin.metadata.val["edge_fingerprint"] = Str(fp)

\* The loop over a non-empty listing has been entered.
LoopEntered == idx >= 1

\* C6: once the twin loop is entered, no failure of a single twin changes
\* the result: run_startup_checks returns True and raises nothing.
C6_PerTwinFailuresAreSoft ==
    (LoopEntered /\ pc = "done") => result = Return(TRUE)

\* C7: a failure at one claimed twin never prevents a later claimed twin
\* from being processed: when the boot ends, the asset of every claimed twin
\* of the listing has been requested.
C7_LaterTwinsProcessed ==
    (LoopEntered /\ pc = "done") =>
        \A j \in 1..Len(twins) :
            Claimed(twins[j], fingerprint) => j \in assetsFetched

\* C8: only twins whose metadata.edge_fingerprint equals the local
\* fingerprint have their asset requested, a snapshot written, a docker
\* subprocess issued, an alert sent or a row in the results.
C8_OnlyClaimedTwins ==
    \A j \in 1..Len(twins) :
        ~Claimed(twins[j], fingerprint) =>
            /\ j \notin assetsFetched
            /\ twins[j].uuid \notin snapshots
            /\ \A k \in 1..Len(dockerOps) : dockerOps[k].twin # twins[j].uuid
            /\ \A k \in 1..Len(alerts) : alerts[k] # twins[j].uuid
            /\ \A k \in 1..Len(results) : results[k].twin_uuid # twins[j].uuid

C8_Witness ==
    /\ pc = "done"
    /\ Len(twins) = 2
    /\ twins[1].metadata = Dict([edge_fingerprint |-> Str(UpperFingerprint)])
    /\ Claimed(twins[2], fingerprint)
    /\ results = <<ResultRow(twins[2].uuid, "img", TRUE)>>

-----------------------------------------------------------------------------
(* Properties of the driver selection *)

\* The table's `default` entry is a mapping with a non-empty string as
\* docker_image.
HasUsableDefault(table) ==
    /\ "default" \in DOMAIN table.val
    /\ table.val["default"].kind = "dict"
    /\ "docker_image" \in DOMAIN table.val["default"].val
    /\ table.val["default"].val["docker_image"].kind = "str"
    /\ table.val["default"].val["docker_image"].val # ""

\* C9: _get_best_driver_image_and_params returns the docker_image and
\* params (empty when absent) of the `default` entry whatever other keys
\* the table holds, and raises when there is no `default` entry or its
\* docker_image is missing, empty or not a string.
C9_DefaultDriverSelected ==
    fn_ret # Pending =>
        LET table == fn_args[1] IN
        IF HasUsableDefault(table)
        THEN LET entry == table.val["default"].val IN
             /\ fn_ret.kind = "return"
             /\ fn_ret.val.image = entry["docker_image"].val
             /\ fn_ret.val.params =
                    IF "params" \in DOMAIN entry THEN entry["params"].val ELSE <<>>
        ELSE /\ fn_ret.kind = "raise"
             /\ fn_ret.val \in {KeyError, ValueError, TypeError}

C9_Witness ==
    /\ fn_ret.kind = "return"
    /\ "mac" \in DOMAIN fn_args[1].val
    /\ "params" \notin DOMAIN fn_args[1].val["default"].val
    /\ fn_ret.val = Selection("img:1.0", <<>>)

-----------------------------------------------------------------------------
(* Properties of the environment link *)

\* C10: load_environment_uuid with 5 retries returns the UUID when
\* environment.json is absent at the first attempt and holds a valid UUID
\* before the third attempt: a call that found the file absent and ended
\* before a third attempt, with the file valid by now, has the UUID.
C10_LinkFoundByThirdAttempt ==
    (envFirstSeen = "absent" /\ envNoneAfter \in 0..2 /\ envFile = "valid"
        /\ pc \notin {"LoadEnvironmentLink", "EnvAttempt"})
    => environment_uuid = EnvUuid

-----------------------------------------------------------------------------
(* Properties of the fingerprint *)

\* fingerprint.json is an object whose "fingerprint" is a string naming a
\* fingerprint (not an empty or blank one).
HoldsFingerprint(file) ==
    file.kind = "saved" /\ file.fingerprint \notin {"", Blank}

Called == fn_args # <<>>

\* C11 as stated: once fingerprint.json holds a fingerprint, a call returns
\* exactly the stored string, derives nothing and leaves the file as it is.
C11_StoredReturnedVerbatim ==
    (Called /\ HoldsFingerprint(fn_args[1])) =>
        /\ fn_ret.kind = "return"
        /\ fn_ret.val = fn_args[1].fingerprint
        /\ fn_ret.calls = <<>>
        /\ fpFile = fn_args[1]

\* C11 amended: once fingerprint.json holds a fingerprint, a call returns
\* the stored string without the white space around it, whatever
\* generate_fingerprint would derive; it derives nothing and leaves the file
\* as it is, so every later call returns the same value.
C11_StoredReturnedStripped ==
    (Called /\ HoldsFingerprint(fn_args[1])) =>
        /\ fn_ret.kind = "return"
        /\ fn_ret.val \in {fn_args[1].fingerprint}
                          \cup {t \in Unpadded : fn_args[1].fingerprint = Pad(t)}
        /\ fn_ret.val \notin {Pad(t) : t \in Unpadded}
        /\ fn_ret.calls = <<>>
        /\ fpFile = fn_args[1]

\* A stored fingerprint is returned although the host would now derive
\* another one.
C11_Witness ==
    /\ Called
    /\ fn_args[1] = FpFileSaved(HostFingerprint)
    /\ fn_args[2] = OtherFingerprint
    /\ fn_ret.val = HostFingerprint
    /\ fpFile = FpFileSaved(HostFingerprint)

\* The contents C12 lists as unreadable or malformed.
Malformed(file) ==
    \/ file.kind \in {"unreadable", "invalid_json", "non_object", "no_field",
                      "non_string_field"}
    \/ file.kind = "saved" /\ file.fingerprint \in {"", Blank}

\* C12: on every unreadable or malformed content of fingerprint.json
\* get_or_create_fingerprint does not raise: it derives the fingerprint,
\* persists it and returns it, and returns None only when the write failed.
C12_MalformedFileIsAbsent ==
    (Called /\ Malformed(fn_args[1])) =>
        /\ fn_ret.kind = "return"
        /\ fn_ret.calls = <<"generate_fingerprint", "save_fingerprint">>
        /\ fn_args[3] => fn_ret.val = fn_args[2] /\ fpFile = FpFileSaved(fn_args[2])
        /\ ~fn_args[3] => fn_ret.val = None

-----------------------------------------------------------------------------
(* Properties of the configuration resolver and the credential store *)

Resolved == fn_ret # Pending /\ fn_ret.fn = "get_runtime_env_var"

\* The levels of C13 read off the inputs as the claim words them: the
\* variable is set in the process environment; `envs` holds a string under
\* the name; the name is a legacy key and the object holds a string under it.
EnvsOf(file) ==
    IF file.kind \in {"no_token", "non_string_token", "token"}
       /\ Get(file.data, "envs").kind = "dict"
    THEN Get(file.data, "envs")
    ELSE EmptyDict
FlatOf(file) ==
    IF file.kind \in {"no_token", "non_string_token", "token"}
    THEN file.data
    ELSE EmptyDict
HoldsStr(d, name) == Get(d, name).kind = "str"

\* C13 as stated: the process environment value when one is set, otherwise
\* the value under the name in `envs`, otherwise the allow-listed legacy flat
\* key, otherwise the default.
C13_PrecedenceOfSetValues ==
    Resolved =>
        LET name == fn_args[1]
            environ == fn_args[3]
            envs == EnvsOf(fn_args[4])
            flat == FlatOf(fn_args[4])
        IN  fn_ret.val =
                IF name \in DOMAIN environ THEN environ[name]
                ELSE IF HoldsStr(envs, name) THEN Get(envs, name).val
                ELSE IF name \in LegacyKeys /\ HoldsStr(flat, name)
                THEN Get(flat, name).val
                ELSE fn_args[2]

\* A level has a usable value: a string that is not empty or blank.
Usable(text) == text \notin {None, "", Blank}
\* The text without the white space around it.
Trimmed(text) ==
    IF \E t \in Unpadded : text = Pad(t)
    THEN CHOOSE t \in Unpadded : text = Pad(t)
    ELSE text
TextOf(d, name) == IF HoldsStr(d, name) THEN Get(d, name).val ELSE None

\* C13 amended: get_runtime_env_var returns the first usable value, trimmed,
\* of: the process environment; `envs` (for a name that starts with
\* CYBERWAVE_); the legacy flat key (for an allow-listed name); and the
\* default when no level has a usable value.  A usable value of a higher
\* level is never replaced by one of a lower level.
C13_PrecedenceOfUsableValues ==
    Resolved =>
        LET name == fn_args[1]
            live == getenv(fn_args[3], name)
            envs == IF StartsWithNamespace(name)
                    THEN TextOf(EnvsOf(fn_args[4]), name) ELSE None
            flat == IF name \in LegacyKeys
                    THEN TextOf(FlatOf(fn_args[4]), name) ELSE None
        IN  fn_ret.val =
                IF Usable(live) THEN Trimmed(live)
                ELSE IF Usable(envs) THEN Trimmed(envs)
                ELSE IF Usable(flat) THEN Trimmed(flat)
                ELSE fn_args[2]

\* Every level holds a usable value and the process environment wins.
C13_Witness ==
    /\ Resolved
    /\ fn_args[1] = "CYBERWAVE_API_URL"
    /\ getenv(fn_args[3], "CYBERWAVE_API_URL") = "https://env"
    /\ TextOf(EnvsOf(fn_args[4]), "CYBERWAVE_API_URL") = "https://envs"
    /\ TextOf(FlatOf(fn_args[4]), "CYBERWAVE_API_URL") = "https://flat"
    /\ fn_ret.val = "https://env"

\* C14: load_token and load_credentials_envs never raise; for a missing
\* file, invalid JSON, JSON that is not an object and a token that is not a
\* string load_token returns None, and for a missing file, invalid JSON and
\* JSON that is not an object load_credentials_envs returns the empty
\* mapping.
C14_CredentialStoreNeverRaises ==
    LET file == fn_args[4] IN
    /\ (fn_ret # Pending /\ fn_ret.fn = "load_token") =>
            /\ fn_ret.kind = "return"
            /\ file.kind \in {"absent", "unreadable", "invalid_json",
                              "non_object", "non_string_token"}
                    => fn_ret.val = None
    /\ (fn_ret # Pending /\ fn_ret.fn = "load_credentials_envs") =>
            /\ fn_ret.kind = "return"
            /\ file.kind \in {"absent", "unreadable", "invalid_json",
                              "non_object"}
                    => fn_ret.val = <<>>

-----------------------------------------------------------------------------
(* Properties of the container lifecycle *)

Ran == fn_ret # Pending
Issued(c) == \E i \in 1..Len(fn_ret.ops) : fn_ret.ops[i].cmd = c
Pulls == {i \in 1..Len(fn_ret.ops) : fn_ret.ops[i].cmd = "pull"}

\* C15: _run_docker_image lets no exception escape: it returns a boolean
\* whatever fails, and when the removal of the pre-existing container fails
\* (non-zero exit or timeout) the pull is still attempted and, after a
\* successful pull, the start.
C15_NoExceptionEscapes ==
    Ran =>
        LET d == fn_args[5].docker IN
        /\ fn_ret.kind = "return"
        /\ fn_ret.val \in BOOLEAN
        /\ (d.installed /\ d.rm \in {"nonzero", "timeout"}) =>
                /\ Issued("pull")
                /\ d.pull = "ok" => Issued("run")

\* C16: within one call the pull is issued at most once and `docker run`
\* only after a pull that succeeded; a pull that exits non-zero or times out
\* makes the call return False with that one pull and no `docker run`; the
\* call returns True only if `docker run` was issued and exited
\* successfully.
C16_PullOnceThenRun ==
    Ran =>
        LET d == fn_args[5].docker
            ops == fn_ret.ops
        IN
        /\ Cardinality(Pulls) <= 1
        /\ \A i \in 1..Len(ops) :
                ops[i].cmd = "run" =>
                    d.pull = "ok" /\ \E j \in 1..(i - 1) : ops[j].cmd = "pull"
        /\ (Issued("pull") /\ d.pull \in {"nonzero", "timeout"}) =>
                /\ fn_ret.kind = "return"
                /\ fn_ret.val = FALSE
                /\ ~Issued("run")
        /\ (fn_ret.kind = "return" /\ fn_ret.val = TRUE) =>
                Issued("run") /\ d.run = "ok"

\* A pull that timed out: the call returned False and started nothing.
C16_Witness ==
    /\ Ran
    /\ fn_args[5].docker.pull = "timeout"
    /\ Cardinality(Pulls) = 1
    /\ fn_ret.val = FALSE
    /\ ~Issued("run")

\* C17: the pre-existing container is removed only after the image pull has
\* succeeded, so a failed pull leaves it in place.
C17_RemoveOnlyAfterPull ==
    Ran =>
        \A i \in 1..Len(fn_ret.ops) :
            fn_ret.ops[i].cmd = "rm" =>
                /\ fn_args[5].docker.pull = "ok"
                /\ \E j \in 1..(i - 1) : fn_ret.ops[j].cmd = "pull"

\* The image name ends in a tag.
CarriesTag(image) ==
    \E r \in Registries, n \in Repositories, t \in Tags \ {""} :
        image = ImageRef(r, n, t)

\* C18: the image reference pulled and run is the given name with `:<tier>`
\* appended exactly when the name carries no tag and the resolved tier is
\* not production; otherwise it is the given name.
C18_TagAppendedWhenUntagged ==
    Ran =>
        LET image == fn_args[1]
            tier == runtime_environment(fn_args[5])
            expected == IF ~CarriesTag(image) /\ tier # "production"
                        THEN image \o ":" \o tier
                        ELSE image
        IN  /\ \A i \in 1..Len(fn_ret.ops) :
                    fn_ret.ops[i].cmd \in {"pull", "run"} =>
                        fn_ret.ops[i].image = expected
            /\ Issued("run") => fn_ret.cmd.image = expected

\* The values the -e options of the `docker run` command line give the
\* variable.
Passed(name) ==
    (IF name \in DOMAIN fn_ret.cmd.env THEN {fn_ret.cmd.env[name]} ELSE {})
    \cup (IF name = "CYBERWAVE_TWIN_JSON_FILE"
             /\ fn_ret.cmd.twin_json_file # None
          THEN {fn_ret.cmd.twin_json_file}
          ELSE {})

\* C19: in the environment passed to `docker run`, CYBERWAVE_TWIN_UUID and
\* CYBERWAVE_TOKEN equal the twin id and the token given, and the resolved
\* API URL, the resolved broker host and the tier, when _run_docker_image
\* sets them, are not replaced by the values credentials.json holds.
C19_ExplicitKeysKept ==
    (Ran /\ Issued("run")) =>
        LET host == fn_args[5]
            api_url == get_runtime_env_var("CYBERWAVE_API_URL", None,
                                           host.environ, host.file)
            mqtt_host == get_runtime_env_var("CYBERWAVE_MQTT_HOST", None,
                                             host.environ, host.file)
            tier == runtime_environment(host)
        IN  /\ Passed("CYBERWAVE_TWIN_UUID") = {UuidText(fn_args[3])}
            /\ Passed("CYBERWAVE_TOKEN") = {fn_args[4]}
            /\ api_url # None => Passed("CYBERWAVE_API_URL") = {api_url}
            /\ mqtt_host # None => Passed("CYBERWAVE_MQTT_HOST") = {mqtt_host}
            /\ tier # "production" => Passed("CYBERWAVE_ENVIRONMENT") = {tier}

\* credentials.json holds other values for every key the process
\* environment and the arguments set, and none of them reaches the container.
C19_Witness ==
    /\ Ran
    /\ Issued("run")
    /\ fn_args[5].file = CredFile("token", OverridesData(Str("dev")))
    /\ getenv(fn_args[5].environ, "CYBERWAVE_ENVIRONMENT") = "staging"
    /\ getenv(fn_args[5].environ, "CYBERWAVE_API_URL") = "https://env"
    /\ Passed("CYBERWAVE_TOKEN") = {GoodToken}
    /\ Passed("CYBERWAVE_API_URL") = {"https://env"}
    /\ Passed("CYBERWAVE_ENVIRONMENT") = {"staging"}
    /\ Passed("CYBERWAVE_CAMERA") = {"cam0"}

\* C20: the container receives CYBERWAVE_ENVIRONMENT only if the resolved
\* tier is not production, and then with the resolved tier, the one the
\* image was tagged with, as its value.
C20_TierOnlyWhenNotProduction ==
    (Ran /\ Issued("run")) =>
        LET tier == runtime_environment(fn_args[5]) IN
        \A value \in Passed("CYBERWAVE_ENVIRONMENT") :
            tier # "production" /\ value = tier

-----------------------------------------------------------------------------
(* Properties of the log forwarding *)

LiveForwarders(name) ==
    {t \in DOMAIN threads : threads[t].name = name /\ is_alive(threads[t])}

\* C21: at every moment at most one live log-forwarding task exists per
\* container name, also when two calls of _stream_container_logs for the
\* same name run concurrently.
C21_AtMostOneLiveForwarder ==
    \A name \in ContainerNames : Cardinality(LiveForwarders(name)) <= 1

\* The container of this name is running and the call that started it has
\* returned.
InService(name) ==
    /\ containers[name].up
    /\ \A c \in Callers : callers[c].name # name

\* A live forwarder follows the container that has this name now.
Attached(name) ==
    \E t \in LiveForwarders(name) :
        /\ threads[t].state = "following"
        /\ threads[t].follows = containers[name].id

\* C22: after every successful _run_docker_image there is eventually a live
\* forwarding task attached to the newly started container (unless the
\* container is replaced once more before that), even if the forwarder of
\* the removed container had not yet exited when the new container started.
C22_RestartGetsForwarder ==
    \A name \in ContainerNames :
        InService(name) ~> (Attached(name) \/ ~InService(name))

-----------------------------------------------------------------------------
(* Properties of the deep merge *)

\* The object the call was given as base, and as override.
PriorObject == Deref(fn_args[1], fn_args[2])
NewObject == Deref(fn_args[1], fn_args[3])

\* The object the last call returned.
ResultObject == Deref(fn_ret.heap, fn_ret.val)

MergedOnce == fn_ret.kind = "return" /\ ~fn_ret.again
MergedTwice == fn_ret.kind = "return" /\ fn_ret.again

\* r keeps what only prior has, takes what new has as a scalar or an array,
\* and where both hold an object it relates to the two in the same way.
RECURSIVE KeepsAndTakes(_, _, _)
KeepsAndTakes(r, prior, new) ==
    /\ r.kind = "dict"
    /\ \A k \in DOMAIN prior.val \ DOMAIN new.val :
        k \in DOMAIN r.val /\ r.val[k] = prior.val[k]
    /\ \A k \in DOMAIN new.val :
        /\ k \in DOMAIN r.val
        /\ IF new.val[k].kind # "dict"
           THEN r.val[k] = new.val[k]
           ELSE IF k \in DOMAIN prior.val /\ prior.val[k].kind = "dict"
           THEN KeepsAndTakes(r.val[k], prior.val[k], new.val[k])
           ELSE TRUE

\* C23: _deep_merge(prior, new) keeps every key that is only in prior with
\* its prior value, takes the new value for every key whose new value is a
\* scalar or an array, holds the recursive merge for a key whose value is an
\* object on both sides, and modifies neither input.
C23_MergeKeepsAndTakes ==
    MergedOnce =>
        /\ KeepsAndTakes(ResultObject, PriorObject, NewObject)
        /\ \A a \in DOMAIN fn_args[1] : fn_ret.heap[a] = fn_args[1][a]

\* A merge that went two objects deep, kept a key of prior and replaced one.
C23_Witness ==
    /\ MergedOnce
    /\ "a" \in DOMAIN PriorObject.val /\ "a" \notin DOMAIN NewObject.val
    /\ Get(PriorObject, "b").kind = "dict"
    /\ Get(NewObject, "b").kind = "dict"
    /\ Get(Get(PriorObject, "b"), "x") = DictOf("z" :> PyInt(1))
    /\ Get(Get(NewObject, "b"), "x") = DictOf("z" :> PyInt(2))
    /\ Get(Get(PriorObject, "b"), "y") = PyInt(1)
    /\ Get(Get(NewObject, "b"), "y") = PyInt(2)

\* C24: _deep_merge(_deep_merge(b, o), o) equals _deep_merge(b, o).
C24_MergeIdempotent ==
    MergedTwice => ResultObject = Deref(fn_ret.heap, fn_ret.prev)

\* The override was merged twice into a base that it changed, arrays and
\* nested objects included.
C24_Witness ==
    /\ MergedTwice
    /\ ResultObject # PriorObject
    /\ Get(PriorObject, "a").kind = "list"
    /\ Get(NewObject, "a").kind = "list"
    /\ Get(PriorObject, "b").kind = "dict"
    /\ Get(NewObject, "b").kind = "dict"
    /\ Get(Get(NewObject, "b"), "x").kind = "dict"

-----------------------------------------------------------------------------
(* Properties of the twin snapshot file *)

\* C25: a reader of the twin's snapshot file observes the complete previous
\* content or the complete new content, never an empty or partially
\* written file.
C25_ReaderSeesCompleteFile ==
    \A kind \in observed : kind = "object"

\* The last call of write_or_update_twin_json_file has returned True.
Refreshed == writer.pc = "idle" /\ writer.out = Return(TRUE)

\* C26: after write_or_update_twin_json_file completes, every key the driver
\* wrote to the file that the remote twin data does not carry is still in
\* the file.
C26_DriverKeysSurvive ==
    Refreshed =>
        \A key \in driverKeys \ DOMAIN writer.remote.val :
            twinFile.kind = "object" /\ key \in DOMAIN twinFile.data.val

-----------------------------------------------------------------------------
(* Properties of the token in the log *)

\* text holds tok as a run of consecutive characters.
ContainsText(text, tok) ==
    \E i \in 0..(Len(text) - Len(tok)) :
        \A j \in 1..Len(tok) : text[i + j] = tok[j]

\* C27: no log record contains the full token: wherever the token is logged
\* it appears only as its first 6 and last 4 characters, or as `***` when
\* it has 12 characters or fewer.
C27_TokenLoggedMasked ==
    LET tok == fn_args[1] IN
    \A i \in DOMAIN journal : \A j \in DOMAIN journal[i].shown :
        LET text == journal[i].shown[j] IN
        /\ ~ContainsText(text, tok)
        /\ IF Len(tok) <= 12
           THEN text = <<"*", "*", "*">>
           ELSE /\ Len(text) = 11
                /\ \A k \in 1..6 : text[k] = tok[k]
                /\ \A k \in 1..4 : text[7 + k] = tok[Len(tok) - 4 + k]

\* A token of 13 characters went through all three places with DEBUG on.
C27_Witness ==
    /\ fn_ret # Pending
    /\ fn_ret.fn = "_run_docker_image"
    /\ Len(fn_args[1]) = 13
    /\ fn_args[2]
    /\ Len(journal) = 5

-----------------------------------------------------------------------------
(* Properties of the status subcommand *)

\* C28: the `status` subcommand leaves all persisted state unchanged: it
\* writes no file in the config directory, registers no edge, and removes,
\* pulls or starts no container.
C28_StatusChangesNothing ==
    /\ <<credFile, fpFile, envFile, twinFile>> = fn_args
    /\ snapshots = {}
    /\ edgesCreated = {}
    /\ dockerOps = <<>>
    /\ containers = NoContainers

\* status found a token, had it accepted and probed the broker.
C28_Witness ==
    /\ fn_ret # Pending
    /\ fn_ret.fn = "check_mqtt_connection"
    /\ fpFile = FpFileAbsent

StatusEnded == fn_ret # Pending /\ fn_ret.fn = "status"

\* C29: the `status` subcommand always completes its report: for every
\* outcome of the credential, token and broker checks it reaches the end of
\* the report and returns without raising.
C29_StatusCompletes ==
    StatusEnded => fn_ret.kind = "return"

-----------------------------------------------------------------------------
(* Properties of the snapshot a driver is started with *)

\* The path of a twin's snapshot in the config directory and in the
\* container.
SnapshotOnHost(twin_uuid) == "CONFIG_DIR/" \o UuidText(twin_uuid) \o ".json"
SnapshotInContainer(twin_uuid) == "/app/" \o UuidText(twin_uuid) \o ".json"

RunsIssued == {i \in DOMAIN dockerOps : dockerOps[i].cmd = "run"}

-----------------------------------------------------------------------------
(* Properties of the containers of one boot *)

\* The rows of `results` reported with success=true.
Started == {i \in DOMAIN results : results[i].success = TRUE}

\* The container started for this twin was replaced later in the boot: after
\* the twin's `docker run`, the pass of another twin issued `docker rm -f`
\* on the same container name and went on to start its own container under
\* that name.
Replaced(twin_uuid) ==
    \E j \in RunsIssued, k \in DOMAIN dockerOps, i \in Started :
        /\ dockerOps[j].twin = twin_uuid
        /\ k > j
        /\ dockerOps[k].cmd = "rm"
        /\ dockerOps[k].container = ContainerName(twin_uuid)
        /\ dockerOps[k].twin # twin_uuid
        /\ results[i].twin_uuid = dockerOps[k].twin

\* C31: running the driver of one matched twin never removes the container
\* started for a different matched twin in the same boot: at the end of
\* fetch_and_run_twin_drivers every twin reported with success=true still
\* has its own container, also when two twin uuids share their first 8
\* characters.
C31_EachTwinKeepsContainer ==
    pc = "done" => \A i \in Started : ~Replaced(results[i].twin_uuid)

====
